---- MODULE Spec2Model ----
(***************************************************************************)
(* OxidBoy: the CPU interpreter (src/src/cpu.rs), the register file        *)
(* (src/GBem/src/registers.rs), the address bus (src/src/mmunit.rs) and    *)
(* the cartridge bank controllers (src/GBem/src/cartridge.rs).             *)
(*                                                                         *)
(* Conventions.                                                            *)
(*  - u8/u16 values are naturals; `+=`, `-=` and `+` on them wrap (the     *)
(*    release profile, overflow checks off), written W8/W16.               *)
(*  - An array is a sparse function: an index outside its DOMAIN holds the *)
(*    byte the constructor put there (0x00); the array's length is kept    *)
(*    beside it, and an index at or past the length is a Rust panic.       *)
(*  - A panic (panic!, assert!, index out of bounds) ends the process: it  *)
(*    is the field `panic` of the machine record, the variable `fatal`.    *)
(***************************************************************************)
EXTENDS Integers, Sequences, FiniteSets, TLC

VARIABLES
    cpu,     \* struct Cpu: reg (struct Register), halted, ei
    mmu,     \* struct Mmunit and what it owns (cartridge, gpu memory, ...)
    fatal,   \* the process has panicked
    ret,     \* what the last operation returned (cycles, or the byte read)
    op,      \* the last operation and its arguments
    steps,   \* operations performed so far
    cpu_rtc, \* struct RTC around the Cpu: step_cycles, step_flip
    disk     \* the files beside the image: path -> contents

vars == <<cpu, mmu, fatal, ret, op, steps, cpu_rtc, disk>>

\* RTC::power_up; step_zero is a wall-clock instant and stays outside
STEP_CYCLES == 67108
RtcPowerUp == [step_cycles |-> 0, step_flip |-> FALSE]

-----------------------------------------------------------------------------
(* Machine arithmetic *)

W8(x) == x % 256
W16(x) == x % 65536

RECURSIVE BitAnd(_, _)
BitAnd(x, y) ==
    IF x = 0 \/ y = 0 THEN 0
    ELSE (x % 2) * (y % 2) + 2 * BitAnd(x \div 2, y \div 2)

BitOr(x, y) == x + y - BitAnd(x, y)
BitXor(x, y) == x + y - 2 * BitAnd(x, y)
Not8(x) == 255 - x
Pow2(n) == CASE n = 0 -> 1 [] n = 1 -> 2 [] n = 2 -> 4 [] n = 3 -> 8 [] n = 4 -> 16
             [] n = 5 -> 32 [] n = 6 -> 64 [] n = 7 -> 128 [] n = 8 -> 256
Shl8(x, n) == W8(x * Pow2(n))
Shr(x, n) == x \div Pow2(n)
\* u8::trailing_zeros: 8 for zero
TrailingZeros(x) ==
    IF x = 0 THEN 8 ELSE CHOOSE n \in 0..7 : x % Pow2(n + 1) = Pow2(n)
\* `v as i8` widened: the signed value of a byte
AsI8(v) == IF v >= 128 THEN v - 256 ELSE v

\* Sparse arrays
At(arr, i) == IF i \in DOMAIN arr THEN arr[i] ELSE 0
Put(arr, i, v) ==
    IF v = 0 THEN [j \in DOMAIN arr \ {i} |-> arr[j]]
    ELSE [j \in DOMAIN arr \cup {i} |-> IF j = i THEN v ELSE arr[j]]
Empty == [j \in {} |-> 0]
\* let x = e; ...: the value of e, computed once, named in what follows
Bind(x, K(_)) == K(x)
\* the same, for the state a loop carries from one turn to the next
Carry(x, K(_)) == CHOOSE y \in {K(v) : v \in {x}} : TRUE

-----------------------------------------------------------------------------
(* Register file: src/GBem/src/registers.rs *)

ZeroFlag == 128
SubtractionFlag == 64
HalfCarryFlag == 32
CarryFlag == 16

parse_af(r) == BitOr(r.a_reg * 256, r.f_reg)
parse_bc(r) == BitOr(r.b_reg * 256, r.c_reg)
parse_de(r) == BitOr(r.d_reg * 256, r.e_reg)
parse_hl(r) == BitOr(r.h_reg * 256, r.l_reg)

set_af_nomask(r, x) == [r EXCEPT !.a_reg = x \div 256, !.f_reg = BitAnd(x, 255)]
set_af(r, x) == [r EXCEPT !.a_reg = x \div 256, !.f_reg = BitAnd(x, 240)]
set_bc(r, x) == [r EXCEPT !.b_reg = x \div 256, !.c_reg = BitAnd(x, 255)]
set_de(r, x) == [r EXCEPT !.d_reg = x \div 256, !.e_reg = BitAnd(x, 255)]
set_hl(r, x) == [r EXCEPT !.h_reg = x \div 256, !.l_reg = BitAnd(x, 255)]

get_flag(r, flag) == BitAnd(r.f_reg, flag) # 0
set_flag(r, flag, v) ==
    IF v THEN [r EXCEPT !.f_reg = BitOr(r.f_reg, flag)]
    ELSE [r EXCEPT !.f_reg = BitAnd(r.f_reg, Not8(flag))]

\* Term::GB / Term::GBP / Term::GBC / Term::SGB
Terms == {"GB", "GBP", "GBC", "SGB"}
RegisterPowerUp(term) ==
    [a_reg |-> CASE term = "GB" -> 1 [] term = "GBP" -> 255
                 [] term = "GBC" -> 17 [] term = "SGB" -> 1,
     f_reg |-> 176, b_reg |-> 0, c_reg |-> 19, d_reg |-> 0, e_reg |-> 216,
     h_reg |-> 1, l_reg |-> 77,
     program_counter |-> 256,
     \* the literal is 0xFFFFE; a u16 holds its low sixteen bits
     stack_pointer |-> W16(1048574)]

-----------------------------------------------------------------------------
(* Cartridge bank controllers: src/GBem/src/cartridge.rs *)

\* What a read returns when the access panics.
Panic == 0 - 1

\* The ROM image is the program's input. Byte i of the image used here,
\* where the cartridge's `rom` does not say otherwise: bank 0 holds i mod 256
\* (so 0x0100 holds 0x00, NOP), and every 16 KiB bank is shifted by three
\* more, which tells the banks apart.
RomByte(i) == W8(i + 3 * (i \div 16384))
RomImage(c, i) == IF i \in DOMAIN c.rom THEN c.rom[i] ELSE RomByte(i)

\* rom[i], ram[i]: Vec<u8> indexing panics past the end; a usize that went
\* below zero is past the end in every build.
RomIndex(c, i) == IF i >= 0 /\ i < c.rom_len THEN RomImage(c, i) ELSE Panic
RamIndex(c, i) == IF i >= 0 /\ i < c.ram_len THEN At(c.ram, i) ELSE Panic
RamStore(c, i, v) ==
    IF i >= 0 /\ i < c.ram_len
    THEN [c |-> [c EXCEPT !.ram = Put(c.ram, i, v)], ok |-> TRUE]
    ELSE [c |-> c, ok |-> FALSE]
Done(c) == [c |-> c, ok |-> TRUE]
Fail(c) == [c |-> c, ok |-> FALSE]

Mbc1_rom_bank(c) ==
    IF c.bank_mode = "Rom" THEN BitAnd(c.bank, 127) ELSE BitAnd(c.bank, 31)
Mbc1_ram_bank(c) ==
    IF c.bank_mode = "Rom" THEN 0 ELSE Shr(BitAnd(c.bank, 96), 5)

RomOnly_get(c, a) == RomIndex(c, a)
RomOnly_set(c, a, v) == Done(c)

Mbc1_get(c, a) ==
    CASE a <= 16383 -> RomIndex(c, a)
      [] a >= 16384 /\ a <= 32767 ->
            RamIndex(c, Mbc1_rom_bank(c) * 8192 + a - 40960)
      [] a >= 40960 /\ a <= 49151 ->
            IF c.ram_enable
            THEN RamIndex(c, Mbc1_ram_bank(c) * 8192 + a - 40960)
            ELSE 0
      [] OTHER -> 0

Mbc1_set(c, a, v) ==
    CASE a >= 40960 /\ a <= 49151 ->
            IF c.ram_enable
            THEN RamStore(c, Mbc1_ram_bank(c) * 8192 + a - 40960, v)
            ELSE Done(c)
      [] a <= 8191 -> Done([c EXCEPT !.ram_enable = (BitAnd(v, 15) = 10)])
      [] a >= 8192 /\ a <= 16383 ->
            LET n0 == BitAnd(v, 31)
                n == IF n0 = 0 THEN 1 ELSE n0
            IN Done([c EXCEPT !.bank = BitOr(BitAnd(c.bank, 96), n)])
         \* `self.bank - self.bank & 0x9F | (n << 5)`: a value, no assignment
      [] a >= 16384 /\ a <= 24575 -> Done(c)
      [] a >= 24576 /\ a <= 32767 ->
            CASE v = 0 -> Done([c EXCEPT !.bank_mode = "Rom"])
              [] v = 1 -> Done([c EXCEPT !.bank_mode = "Ram"])
              [] OTHER -> Fail(c)
      [] OTHER -> Done(c)

Mbc2_get(c, a) ==
    CASE a <= 16383 -> RomIndex(c, a)
      [] a >= 16384 /\ a <= 32767 -> RomIndex(c, c.rom_bank * 16384 + a - 16384)
      [] a >= 40960 /\ a <= 41471 ->
            IF c.ram_enable THEN RamIndex(c, a - 40960) ELSE 0
      [] OTHER -> 0

\* Mbc2::set without the test of address bit 8 on the RAM-enable write
Mbc2_set_any_low(c, a, v0) ==
    LET v == BitAnd(v0, 15) IN
    CASE a >= 40960 /\ a <= 41471 ->
            IF c.ram_enable THEN RamStore(c, a - 40960, v) ELSE Done(c)
      [] a <= 8191 -> Done([c EXCEPT !.ram_enable = (v = 10)])
      [] a >= 8192 /\ a <= 16383 ->
            IF BitAnd(a, 256) # 0 THEN Done([c EXCEPT !.rom_bank = v])
            ELSE Done(c)
      [] OTHER -> Done(c)

Mbc2_set(c, a, v0) ==
    LET v == BitAnd(v0, 15) IN
    CASE a >= 40960 /\ a <= 41471 ->
            IF c.ram_enable THEN RamStore(c, a - 40960, v) ELSE Done(c)
      [] a <= 8191 ->
            IF BitAnd(a, 256) = 0 THEN Done([c EXCEPT !.ram_enable = (v = 10)])
            ELSE Done(c)
      [] a >= 8192 /\ a <= 16383 ->
            IF BitAnd(a, 256) # 0 THEN Done([c EXCEPT !.rom_bank = v])
            ELSE Done(c)
         \* the match has no arm for any other address
      [] OTHER -> Done(c)

\* struct RTC: the register block of the clock
RTC_get(rtc, a) ==
    CASE a = 8 -> rtc.second [] a = 9 -> rtc.minute [] a = 10 -> rtc.hour
      [] a = 11 -> rtc.dl [] a = 12 -> rtc.dh [] OTHER -> Panic
RTC_set(rtc, a, v) ==
    CASE a = 8 -> [rtc |-> [rtc EXCEPT !.second = v], ok |-> TRUE]
      [] a = 9 -> [rtc |-> [rtc EXCEPT !.minute = v], ok |-> TRUE]
      [] a = 10 -> [rtc |-> [rtc EXCEPT !.hour = v], ok |-> TRUE]
      [] a = 11 -> [rtc |-> [rtc EXCEPT !.dl = v], ok |-> TRUE]
      [] a = 12 -> [rtc |-> [rtc EXCEPT !.dh = v], ok |-> TRUE]
      [] OTHER -> [rtc |-> rtc, ok |-> FALSE]
\* RTC::tic at wall-clock second `now` (SystemTime::now(), never before zero)
RTC_tic(rtc, now) ==
    LET d == now - rtc.zero
        days == W16((d \div 3600) \div 24)
        dh1 == IF days >= 256 THEN BitOr(rtc.dh, 1) ELSE rtc.dh
        dh2 == IF days >= 512 THEN BitOr(dh1, 128) ELSE dh1
    IN [rtc EXCEPT !.second = W8(d % 60),
                   !.minute = W8((d % 60) % 60),
                   !.hour = W8((d \div 3600) % 24),
                   !.dl = W8(days % 256),
                   !.dh = dh2]

Mbc3_get(c, a) ==
    CASE a <= 16383 -> RomIndex(c, a)
      [] a >= 16384 /\ a <= 32767 -> RomIndex(c, c.rom_bank * 16384 + a - 16384)
      [] a >= 40960 /\ a <= 49151 ->
            IF c.ram_enable
            THEN IF c.ram_bank <= 3
                 THEN RamIndex(c, c.ram_bank * 8192 + a - 40960)
                 ELSE RTC_get(c.rtc, c.ram_bank)
            ELSE 0
      [] OTHER -> 0

Mbc3_set(c, a, v) ==
    CASE a >= 40960 /\ a <= 49151 ->
            IF c.ram_enable
            THEN IF c.ram_bank <= 3
                 THEN RamStore(c, c.ram_bank * 8192 + a - 40960, v)
                 ELSE LET r == RTC_set(c.rtc, c.ram_bank, v)
                      IN [c |-> [c EXCEPT !.rtc = r.rtc], ok |-> r.ok]
            ELSE Done(c)
      [] a <= 8191 -> Done([c EXCEPT !.ram_enable = (BitAnd(v, 15) = 10)])
      [] a >= 8192 /\ a <= 16383 ->
            LET n0 == BitAnd(v, 127)
                n == IF n0 = 0 THEN 1 ELSE n0
            IN Done([c EXCEPT !.rom_bank = n])
      [] a >= 16384 /\ a <= 24575 -> Done([c EXCEPT !.ram_bank = BitAnd(v, 15)])
      [] a >= 24576 /\ a <= 32767 ->
            IF BitAnd(v, 1) # 0
            THEN Done([c EXCEPT !.rtc = RTC_tic(c.rtc, c.now)])
            ELSE Done(c)
      [] OTHER -> Done(c)

Mbc5_get(c, a) ==
    CASE a <= 16383 -> RomIndex(c, a)
      [] a >= 16384 /\ a <= 32767 -> RomIndex(c, c.rom_bank * 16384 + a - 16384)
      [] a >= 40960 /\ a <= 49151 ->
            IF c.ram_enable
            THEN RamIndex(c, c.ram_bank * 8192 + a - 40960)
            ELSE 0
      [] OTHER -> 0

Mbc5_set(c, a, v) ==
    CASE a >= 40960 /\ a <= 49151 ->
            IF c.ram_enable
            THEN RamStore(c, c.ram_bank * 8192 + a - 40960, v)
            ELSE Done(c)
      [] a <= 8191 -> Done([c EXCEPT !.ram_enable = (BitAnd(v, 15) = 10)])
      [] a >= 8192 /\ a <= 12287 ->
            Done([c EXCEPT !.rom_bank = BitOr(BitAnd(c.rom_bank, 256), v)])
      [] a >= 12288 /\ a <= 16383 ->
            Done([c EXCEPT !.rom_bank =
                     BitOr(BitAnd(c.rom_bank, 255), BitAnd(v, 1) * 256)])
      [] a >= 16384 /\ a <= 24575 -> Done([c EXCEPT !.ram_bank = BitAnd(v, 15)])
      [] OTHER -> Done(c)

\* Box<dyn Cartridge>: the variant built at load decides every access.
\* HuC1 forwards to the Mbc1 it wraps.
Cartridge_get(c, a) ==
    CASE c.kind = "RomOnly" -> RomOnly_get(c, a)
      [] c.kind \in {"Mbc1", "HuC1"} -> Mbc1_get(c, a)
      [] c.kind = "Mbc2" -> Mbc2_get(c, a)
      [] c.kind = "Mbc3" -> Mbc3_get(c, a)
      [] c.kind = "Mbc5" -> Mbc5_get(c, a)

Cartridge_set(c, a, v) ==
    CASE c.kind = "RomOnly" -> RomOnly_set(c, a, v)
      [] c.kind \in {"Mbc1", "HuC1"} -> Mbc1_set(c, a, v)
      [] c.kind = "Mbc2" -> Mbc2_set(c, a, v)
      [] c.kind = "Mbc3" -> Mbc3_set(c, a, v)
      [] c.kind = "Mbc5" -> Mbc5_set(c, a, v)

\* The constructors (Mbc1::power_up, ...): one record holds the fields of
\* every variant; a variant reads only its own. Mbc1 names its latch
\* ram_enabled and keeps both bank numbers in `bank`.
CartridgePowerUp(kind, rom_len, ram_len, zero, now) ==
    [kind |-> kind, rom |-> Empty, rom_len |-> rom_len, ram_len |-> ram_len,
     ram |-> Empty,
     bank_mode |-> "Rom", bank |-> 1, rom_bank |-> 1, ram_bank |-> 0,
     ram_enable |-> FALSE,
     rtc |-> [second |-> 0, minute |-> 0, hour |-> 0, dl |-> 0, dh |-> 0,
              zero |-> zero, sav_path |-> ""],
     now |-> now, sav_path |-> ""]

\* ---- trait Stable: sav() ----
\* File::create(path) and write_all(data)
FileCreate(d, path, data) ==
    [p \in DOMAIN d \cup {path} |-> IF p = path THEN data ELSE d[p]]
\* u64::to_be_bytes
to_be_bytes(n) == [i \in 1..8 |-> (n \div (256 ^ (8 - i))) % 256]
RamBytes(c) == [len |-> c.ram_len, bytes |-> c.ram]

\* What the file system does with a File::create(..).and_then(write_all):
\* the file is written, or the call returns Err and sav()'s unwrap() panics
IoOutcomes == {"ok", "fails"}
Saved(d) == [d |-> d, ok |-> TRUE]
SaveWith(d, path, data, io) ==
    IF io = "ok" THEN Saved(FileCreate(d, path, data)) ELSE [d |-> d, ok |-> FALSE]

\* impl Stable for RTC
RTC_sav(rtc, d, io) ==
    IF rtc.sav_path = "" THEN Saved(d)
    ELSE SaveWith(d, rtc.sav_path, to_be_bytes(rtc.zero), io)
\* impl Stable for Mbc1, Mbc2, Mbc3, Mbc5: the RAM goes to sav_path
Mbc_sav(c, d, io) ==
    IF c.sav_path = "" THEN Saved(d)
    ELSE SaveWith(d, c.sav_path, RamBytes(c), io)
Cartridge_sav(c, d, io) ==
    CASE c.kind = "RomOnly" -> Saved(d)
      [] OTHER -> Mbc_sav(c, d, io)

\* ram_read(path, size): the file's bytes, or `size` zero bytes when the
\* file cannot be opened
ram_read(d, path, size) ==
    IF path \in DOMAIN d THEN d[path] ELSE [len |-> size, bytes |-> Empty]

\* ---- loading: power_up(path), with no save file beside the image ----
NINTENDO_LOGO ==
    <<206, 237, 102, 102, 204, 13, 0, 11, 3, 115, 0, 131, 0, 12, 0, 13, 0, 8, 17,
      31, 136, 137, 0, 14, 220, 204, 110, 230, 221, 221, 217, 153, 187, 187, 103,
      99, 110, 14, 236, 204, 221, 220, 153, 159, 187, 185, 51, 62>>

\* let bank = 16384
BankSize == 16384
rom_size(byte) ==
    CASE byte = 0 -> BankSize * 2 [] byte = 1 -> BankSize * 4
      [] byte = 2 -> BankSize * 8 [] byte = 3 -> BankSize * 16
      [] byte = 4 -> BankSize * 32 [] byte = 5 -> BankSize * 64
      [] byte = 6 -> BankSize * 128 [] byte = 7 -> BankSize * 256
      [] byte = 8 -> BankSize * 512 [] byte = 82 -> BankSize * 72
      [] byte = 83 -> BankSize * 80 [] byte = 84 -> BankSize * 96
      [] OTHER -> Panic
ram_size(byte) ==
    CASE byte = 0 -> 0 [] byte = 1 -> 2048 [] byte = 2 -> 8192
      [] byte = 3 -> 32768 [] byte = 4 -> 131072 [] byte = 5 -> 65536
      [] OTHER -> Panic

\* ensure_logo: all 48 comparisons read cart.get(0x0104 + 1 as u16)
ensure_logo(c) ==
    \A i \in 0..47 : Cartridge_get(c, 260 + 1) = NINTENDO_LOGO[i + 1]

\* ensure_header_checksum: v = v - byte - 1 over 0x0134..0x014C
RECURSIVE header_sum(_, _, _)
header_sum(c, i, v) ==
    IF i = 333 THEN v
    ELSE header_sum(c, i + 1, W8(W8(v - Cartridge_get(c, i)) - 1))
ensure_header_checksum(c) == Cartridge_get(c, 333) = header_sum(c, 308, 0)

\* the match on rom[0x0147]: <<variant, ram length>>, or Panic. The arms
\* that call ram_size(0x0149) pass the low byte of the literal, 0x49.
cart_variant(type, ram_code) ==
    CASE type = 0 -> <<"RomOnly", 0>>
      [] type = 1 -> <<"Mbc1", 0>>
      [] type = 2 -> <<"Mbc1", ram_size(ram_code)>>
      [] type \in {5, 6} -> <<"Mbc2", 512>>
      [] type \in {15, 17} -> <<"Mbc3", 0>>
      [] type = 16 -> <<"Mbc3", ram_size(ram_code)>>
      [] type = 25 -> <<"Mbc5", 0>>
      [] type \in {3, 18, 19, 26, 27, 255} -> <<"none", ram_size(W8(329))>>
      [] OTHER -> <<"none", Panic>>

\* power_up(path) on the file img = [rom, len]: [c, ok]
cart_power_up(img, now) ==
    IF img.len < 336 THEN [ok |-> FALSE]
    ELSE IF rom_size(img.rom[328]) = Panic \/ img.len > rom_size(img.rom[328])
    THEN [ok |-> FALSE]
    ELSE Bind(cart_variant(img.rom[327], img.rom[329]), LAMBDA k:
      IF k[2] = Panic THEN [ok |-> FALSE]
      ELSE Bind([CartridgePowerUp(k[1], img.len, k[2], now, now)
                    EXCEPT !.rom = img.rom], LAMBDA c:
        IF ensure_logo(c) /\ ensure_header_checksum(c)
        THEN [ok |-> TRUE, c |-> c]
        ELSE [ok |-> FALSE]))

-----------------------------------------------------------------------------
(* Peripherals behind the bus: src/src/joypad.rs, linkcable.rs, timer.rs,  *)
(* gpu.rs. The sound registers are kept as the bytes last written: the     *)
(* pixel and sample pipelines are not modelled.                            *)

Joypad_get(j) ==
    IF BitAnd(j.select, 16) = 0 THEN BitOr(j.select, BitAnd(j.matrix, 15))
    ELSE IF BitAnd(j.select, 32) = 0 THEN BitOr(j.select, Shr(j.matrix, 4))
    ELSE j.select
Joypad_set(j, v) == [j EXCEPT !.select = v]

Serial_get(sr, a) == IF a = 65281 THEN sr.data ELSE sr.control
Serial_set(sr, a, v) ==
    IF a = 65281 THEN [sr EXCEPT !.data = v] ELSE [sr EXCEPT !.control = v]

Timer_get(t, a) ==
    CASE a = 65284 -> t.div [] a = 65285 -> t.tima
      [] a = 65286 -> t.tma [] a = 65287 -> t.tac
Timer_set(t, a, v) ==
    CASE a = 65284 -> [t EXCEPT !.div = 0, !.div_clock_n = 0]
      [] a = 65285 -> [t EXCEPT !.tima = v]
      [] a = 65286 -> [t EXCEPT !.tma = v]
      [] a = 65287 ->
            IF BitAnd(t.tac, 3) # BitAnd(v, 3)
            THEN [t EXCEPT !.tma_clock_n = 0,
                           !.tma_clock_period =
                               CASE BitAnd(v, 3) = 0 -> 1024
                                 [] BitAnd(v, 3) = 1 -> 16
                                 [] BitAnd(v, 3) = 2 -> 64
                                 [] BitAnd(v, 3) = 3 -> 256,
                           !.tima = t.tma,
                           !.tac = v]
            ELSE [t EXCEPT !.tac = v]

Hdma_get(h, a) ==
    CASE a = 65361 -> Shr(h.src, 8)
      [] a = 65362 -> W8(h.src)
      [] a = 65363 -> Shr(h.dst, 8)
      [] a = 65364 -> W8(h.dst)
      [] a = 65365 -> BitOr(h.remain, IF h.active THEN 0 ELSE 128)
Hdma_set_restarts(h, a, v) ==
    CASE a = 65361 -> [h EXCEPT !.src = BitOr(v * 256, BitAnd(h.src, 255))]
      [] a = 65362 -> [h EXCEPT !.src = BitOr(BitAnd(h.src, 65280), BitAnd(v, 240))]
      [] a = 65363 ->
            [h EXCEPT !.dst = BitOr(BitOr(32768, BitAnd(v, 31) * 256),
                                    BitAnd(h.dst, 255))]
      [] a = 65364 -> [h EXCEPT !.dst = BitOr(BitAnd(h.dst, 65280), BitAnd(v, 240))]
      [] a = 65365 ->
            [h EXCEPT !.active = TRUE,
                      !.remain = BitAnd(v, 127),
                      !.mode = IF BitAnd(v, 128) # 0 THEN "Hdma" ELSE "Gdma"]
Hdma_set(h, a, v) ==
    CASE a = 65361 -> [h EXCEPT !.src = BitOr(v * 256, BitAnd(h.src, 255))]
      [] a = 65362 -> [h EXCEPT !.src = BitOr(BitAnd(h.src, 65280), BitAnd(v, 240))]
      [] a = 65363 ->
            [h EXCEPT !.dst = BitOr(BitOr(32768, BitAnd(v, 31) * 256),
                                    BitAnd(h.dst, 255))]
      [] a = 65364 -> [h EXCEPT !.dst = BitOr(BitAnd(h.dst, 65280), BitAnd(v, 240))]
      [] a = 65365 ->
            IF h.active /\ h.mode = "Hdma"
            THEN IF BitAnd(v, 128) = 0 THEN [h EXCEPT !.active = FALSE] ELSE h
            ELSE [h EXCEPT !.active = TRUE,
                           !.remain = BitAnd(v, 127),
                           !.mode = IF BitAnd(v, 128) # 0 THEN "Hdma" ELSE "Gdma"]

\* struct Gpu without the frame buffer `data` and the sprite priorities
\* `prio`: draw_bg and draw_sprites write them and nothing in the machine
\* reads them back.
GpuPowerUp ==
    [h_blank |-> FALSE, v_blank |-> FALSE,
     lcdc |-> 72,
     stat |-> [ly_interrupt |-> FALSE, m2_interrupt |-> FALSE,
               m1_interrupt |-> FALSE, m0_interrupt |-> FALSE, mode |-> 0],
     sy |-> 0, sx |-> 0, wy |-> 0, wx |-> 0, ly |-> 0, lc |-> 0,
     bgp |-> 0, op0 |-> 0, op1 |-> 1,
     cbgpi |-> [i |-> 0, auto_increment |-> FALSE], cbgpd |-> Empty,
     cobpi |-> [i |-> 0, auto_increment |-> FALSE], cobpd |-> Empty,
     ram |-> Empty, ram_bank |-> 0, oam |-> Empty, dots |-> 0]

\* the addresses that do not fall to the panic!("") arm of Gpu::get and set
Gpu_handles(a) ==
    \/ (a >= 32768 /\ a <= 40959) \/ (a >= 65024 /\ a <= 65183)
    \/ (a >= 65344 /\ a <= 65349) \/ (a >= 65351 /\ a <= 65355)
    \/ a = 65359 \/ (a >= 65384 /\ a <= 65387)

Bgpi_get(p) == BitOr(IF p.auto_increment THEN 128 ELSE 0, p.i)
Bgpi_set(v) == [auto_increment |-> BitAnd(v, 128) # 0, i |-> BitAnd(v, 63)]
\* palette data [r][c][k] of cbgpd / cobpd, r = i >> 3, c = i >> 1 & 3
PalIndex(i, k) == Shr(i, 3) * 12 + BitAnd(Shr(i, 1), 3) * 3 + k
Pal_get(p, d) ==
    IF BitAnd(p.i, 1) = 0
    THEN BitOr(At(d, PalIndex(p.i, 0)), Shl8(At(d, PalIndex(p.i, 1)), 5))
    ELSE BitOr(Shr(At(d, PalIndex(p.i, 1)), 3), Shl8(At(d, PalIndex(p.i, 2)), 2))
Pal_set(p, d, v) ==
    IF BitAnd(p.i, 1) = 0
    THEN Put(Put(d, PalIndex(p.i, 0), BitAnd(v, 31)),
             PalIndex(p.i, 1),
             BitOr(BitAnd(At(d, PalIndex(p.i, 1)), 24), Shr(v, 5)))
    ELSE Put(Put(d, PalIndex(p.i, 1),
                 BitOr(BitAnd(At(d, PalIndex(p.i, 1)), 7),
                       Shl8(BitAnd(v, 3), 3))),
             PalIndex(p.i, 2), BitAnd(Shr(v, 2), 31))
Pal_step(p) ==
    IF p.auto_increment THEN [p EXCEPT !.i = BitAnd(p.i + 1, 63)] ELSE p

Gpu_get(g, a) ==
    CASE a >= 32768 /\ a <= 40959 -> At(g.ram, g.ram_bank * 8192 + a - 32768)
      [] a >= 65024 /\ a <= 65183 -> At(g.oam, a - 65024)
      [] a = 65344 -> g.lcdc
      [] a = 65345 ->
            BitOr(BitOr(BitOr(IF g.stat.ly_interrupt THEN 64 ELSE 0,
                              IF g.stat.m2_interrupt THEN 32 ELSE 0),
                        BitOr(IF g.stat.m1_interrupt THEN 16 ELSE 0,
                              IF g.stat.m0_interrupt THEN 8 ELSE 0)),
                  BitOr(IF g.ly = g.lc THEN 4 ELSE 0, g.stat.mode))
      [] a = 65346 -> g.sy
      [] a = 65347 -> g.sx
      [] a = 65348 -> g.ly
      [] a = 65349 -> g.lc
      [] a = 65351 -> g.bgp
      [] a = 65352 -> g.op0
      [] a = 65353 -> g.op1
      [] a = 65354 -> g.wy
      [] a = 65355 -> g.wx
      [] a = 65359 -> BitOr(254, g.ram_bank)
      [] a = 65384 -> Bgpi_get(g.cbgpi)
      [] a = 65385 -> Pal_get(g.cbgpi, g.cbgpd)
      [] a = 65386 -> Bgpi_get(g.cobpi)
      [] a = 65387 -> Pal_get(g.cobpi, g.cobpd)
      [] OTHER -> Panic
Gpu_set(g, a, v) ==
    CASE a >= 32768 /\ a <= 40959 ->
            [g EXCEPT !.ram = Put(g.ram, g.ram_bank * 8192 + a - 32768, v)]
      [] a >= 65024 /\ a <= 65183 -> [g EXCEPT !.oam = Put(g.oam, a - 65024, v)]
      [] a = 65344 ->
            IF BitAnd(v, 128) = 0
            THEN [g EXCEPT !.lcdc = v, !.dots = 0, !.ly = 0, !.stat.mode = 0,
                           !.v_blank = TRUE]
            ELSE [g EXCEPT !.lcdc = v]
      [] a = 65345 ->
            [g EXCEPT !.stat.ly_interrupt = BitAnd(v, 64) # 0,
                      !.stat.m2_interrupt = BitAnd(v, 32) # 0,
                      !.stat.m1_interrupt = BitAnd(v, 16) # 0,
                      !.stat.m0_interrupt = BitAnd(v, 8) # 0]
      [] a = 65346 -> [g EXCEPT !.sy = v]
      [] a = 65347 -> [g EXCEPT !.sx = v]
      [] a = 65348 -> g
      [] a = 65349 -> [g EXCEPT !.lc = v]
      [] a = 65351 -> [g EXCEPT !.bgp = v]
      [] a = 65352 -> [g EXCEPT !.op0 = v]
      [] a = 65353 -> [g EXCEPT !.op1 = v]
      [] a = 65354 -> [g EXCEPT !.wy = v]
      [] a = 65355 -> [g EXCEPT !.wx = v]
      [] a = 65359 -> [g EXCEPT !.ram_bank = BitAnd(v, 1)]
      [] a = 65384 -> [g EXCEPT !.cbgpi = Bgpi_set(v)]
      [] a = 65385 -> [g EXCEPT !.cbgpd = Pal_set(g.cbgpi, g.cbgpd, v),
                                !.cbgpi = Pal_step(g.cbgpi)]
      [] a = 65386 -> [g EXCEPT !.cobpi = Bgpi_set(v)]
      [] a = 65387 -> [g EXCEPT !.cobpd = Pal_set(g.cobpi, g.cobpd, v),
                                !.cobpi = Pal_step(g.cobpi)]

-----------------------------------------------------------------------------
(* Address bus: src/src/mmunit.rs *)

SpeedNormal == 1
SpeedDouble == 2

InRange(a, lo, hi) == a >= lo /\ a <= hi
\* index of a switchable-window byte in wram: a - 0xD000 + 0x1000 * wram_bank
WramFlatIndex(m, off) == off
WramBankIndex(m, off) == off + 4096 * m.wram_bank
IsGpuReg(a) == InRange(a, 65344, 65349) \/ InRange(a, 65351, 65355) \/ a = 65359

Mmunit_get(m, a) ==
    CASE a <= 32767 -> Cartridge_get(m.cartridge, a)
      [] InRange(a, 32768, 40959) -> Gpu_get(m.gpu, a)
      [] InRange(a, 40960, 49151) -> Cartridge_get(m.cartridge, a)
      [] InRange(a, 49152, 53247) -> At(m.wram, a - 49152)
      [] InRange(a, 53248, 57343) -> At(m.wram, WramBankIndex(m, a - 53248))
      [] InRange(a, 57344, 61439) -> At(m.wram, a - 57344)
      [] InRange(a, 61440, 65023) -> At(m.wram, WramBankIndex(m, a - 61440))
      [] InRange(a, 65024, 65183) -> Gpu_get(m.gpu, a)
      [] InRange(a, 65184, 65279) -> 0
      [] a = 65280 -> Joypad_get(m.joypad)
      [] InRange(a, 65281, 65282) -> Serial_get(m.serial, a)
      [] InRange(a, 65284, 65287) -> Timer_get(m.time, a)
      [] a = 65295 -> m.intf
      [] InRange(a, 65296, 65343) -> At(m.apu, a)
      [] a = 65357 ->
            BitOr(IF m.speed = SpeedDouble THEN 128 ELSE 0,
                  IF m.shift THEN 1 ELSE 0)
      [] IsGpuReg(a) -> Gpu_get(m.gpu, a)
      [] InRange(a, 65361, 65365) -> Hdma_get(m.hdma, a)
      [] InRange(a, 65384, 65387) -> Gpu_get(m.gpu, a)
      [] a = 65392 -> m.wram_bank
      [] InRange(a, 65408, 65534) -> At(m.hram, a - 65408)
      [] a = 65535 -> m.inte
      [] OTHER -> 0

\* the 0xFF70 arm of set: match v & 0x7 { 0 => 1, n => n }
wram_bank_select_raw(v) == BitAnd(v, 7)
wram_bank_select(v) == IF BitAnd(v, 7) = 0 THEN 1 ELSE BitAnd(v, 7)

OkM(m) == [m |-> m, ok |-> TRUE]
FailM(m) == [m |-> m, ok |-> FALSE]
FromCart(m, r) == [m |-> [m EXCEPT !.cartridge = r.c], ok |-> r.ok]

\* The 0xFF46 arm: assert!(v <= 0xF1), then 160 bytes read through get()
\* and stored through set(0xFE00 + i), which is the GPU's OAM.
OamDma(m, v) ==
    LET base == v * 256
        src == [i \in 0..159 |-> Mmunit_get(m, base + i)]
        hit == {i \in 0..159 : src[i] # 0}
    IN IF v > 241 THEN FailM(m)
       ELSE IF \E i \in 0..159 : src[i] = Panic THEN FailM(m)
       ELSE OkM([m EXCEPT !.gpu.oam = [i \in hit |-> src[i]]])

Mmunit_set(m, a, v) ==
    CASE a <= 32767 -> FromCart(m, Cartridge_set(m.cartridge, a, v))
      [] InRange(a, 32768, 40959) -> OkM([m EXCEPT !.gpu = Gpu_set(m.gpu, a, v)])
      [] InRange(a, 40960, 49151) -> FromCart(m, Cartridge_set(m.cartridge, a, v))
      [] InRange(a, 49152, 53247) ->
            OkM([m EXCEPT !.wram = Put(m.wram, a - 49152, v)])
      [] InRange(a, 53248, 57343) ->
            OkM([m EXCEPT !.wram = Put(m.wram, WramBankIndex(m, a - 53248), v)])
      [] InRange(a, 57344, 61439) ->
            OkM([m EXCEPT !.wram = Put(m.wram, a - 57344, v)])
      [] InRange(a, 61440, 65023) ->
            OkM([m EXCEPT !.wram = Put(m.wram, WramBankIndex(m, a - 61440), v)])
      [] InRange(a, 65024, 65183) -> OkM([m EXCEPT !.gpu = Gpu_set(m.gpu, a, v)])
      [] InRange(a, 65184, 65279) -> OkM(m)
      [] a = 65280 -> OkM([m EXCEPT !.joypad = Joypad_set(m.joypad, v)])
      [] InRange(a, 65281, 65282) ->
            OkM([m EXCEPT !.serial = Serial_set(m.serial, a, v)])
      [] InRange(a, 65284, 65287) -> OkM([m EXCEPT !.time = Timer_set(m.time, a, v)])
      [] InRange(a, 65296, 65343) -> OkM([m EXCEPT !.apu = Put(m.apu, a, v)])
      [] a = 65350 -> OamDma(m, v)
      [] a = 65357 -> OkM([m EXCEPT !.shift = (BitAnd(v, 1) = 1)])
      [] IsGpuReg(a) -> OkM([m EXCEPT !.gpu = Gpu_set(m.gpu, a, v)])
      [] InRange(a, 65361, 65365) -> OkM([m EXCEPT !.hdma = Hdma_set(m.hdma, a, v)])
      [] InRange(a, 65384, 65387) -> OkM([m EXCEPT !.gpu = Gpu_set(m.gpu, a, v)])
      [] a = 65295 -> OkM([m EXCEPT !.intf = v])
      [] a = 65392 -> OkM([m EXCEPT !.wram_bank = wram_bank_select(v)])
      [] InRange(a, 65408, 65534) ->
            OkM([m EXCEPT !.hram = Put(m.hram, a - 65408, v)])
      [] a = 65535 -> OkM([m EXCEPT !.inte = v])
      [] OTHER -> OkM(m)

\* Mmunit::power_up, after its list of set() calls
MmunitPowerUp(cart, term) ==
    [cartridge |-> cart,
     apu |-> (65296 :> 128) @@ (65297 :> 191) @@ (65298 :> 243) @@ (65300 :> 191)
             @@ (65302 :> 63) @@ (65305 :> 191) @@ (65306 :> 127)
             @@ (65307 :> 255) @@ (65308 :> 159) @@ (65310 :> 255)
             @@ (65312 :> 255) @@ (65315 :> 191) @@ (65316 :> 119)
             @@ (65317 :> 243) @@ (65318 :> 241),
     gpu |-> [GpuPowerUp EXCEPT !.lcdc = 145, !.bgp = 252, !.op0 = 255,
                                !.op1 = 255],
     serial |-> [data |-> 0, control |-> 0],
     joypad |-> [matrix |-> 255, select |-> 0],
     shift |-> FALSE,
     speed |-> SpeedNormal,
     term |-> term,
     time |-> [div |-> 0, tima |-> 0, tma |-> 0, tac |-> 0, div_clock_n |-> 0,
               tma_clock_n |-> 0, tma_clock_period |-> 1024],
     inte |-> 0,
     intf |-> 0,
     hdma |-> [src |-> 0, dst |-> 32768, active |-> FALSE, mode |-> "Gdma",
               remain |-> 0],
     hram |-> Empty,
     wram |-> Empty,
     wram_bank |-> 1]

\* trait Memory, get_word / set_word: low byte first
Memory_get_word(m, a) ==
    Bind(Mmunit_get(m, a), LAMBDA lo:
    Bind(Mmunit_get(m, W16(a + 1)), LAMBDA hi:
      IF lo = Panic \/ hi = Panic THEN Panic ELSE BitOr(lo, hi * 256)))
Memory_set_word(m, a, v) ==
    Bind(Mmunit_set(m, a, BitAnd(v, 255)), LAMBDA r1:
      IF ~r1.ok THEN r1 ELSE Mmunit_set(r1.m, W16(a + 1), Shr(v, 8)))

-----------------------------------------------------------------------------
(* Advance of the peripherals after a CPU step: Mmunit::next and what it   *)
(* calls. Each operator that can raise an interrupt carries the flag byte  *)
(* of Intf along with the peripheral: [t, intf], [g, intf].                *)

\* Intf::hi(flag): data |= 1 << flag
FlagVblank == 0
FlagLCDStat == 1
FlagTimer == 2
Intf_hi(data, flag) == BitOr(data, Pow2(flag))

\* Clock::next(cycles): the counter n grows by the cycles, the whole periods
\* it holds are the ticks returned, the remainder stays in n
Clock_next(n, period, cycles) ==
    [n |-> (n + cycles) % period, ticks |-> (n + cycles) \div period]

\* the loop of Timer::next: tima counts up; on the wrap to 0 it is reloaded
\* from tma and the Timer interrupt is raised
RECURSIVE Tima_loop(_, _, _)
Tima_loop(t, intf, n) ==
    IF n = 0 THEN [t |-> t, intf |-> intf]
    ELSE IF W8(t.tima + 1) = 0
         THEN Tima_loop([t EXCEPT !.tima = t.tma], Intf_hi(intf, FlagTimer), n - 1)
         ELSE Tima_loop([t EXCEPT !.tima = W8(t.tima + 1)], intf, n - 1)

Timer_next(t, intf, cycle) ==
    Bind(Clock_next(t.div_clock_n, 256, cycle), LAMBDA d:
    Bind([t EXCEPT !.div = W8(t.div + W8(d.ticks)), !.div_clock_n = d.n],
         LAMBDA t1:
      IF BitAnd(t1.tac, 4) # 0
      THEN Bind(Clock_next(t1.tma_clock_n, t1.tma_clock_period, cycle), LAMBDA c:
             Tima_loop([t1 EXCEPT !.tma_clock_n = c.n], intf, c.ticks))
      ELSE [t |-> t1, intf |-> intf]))

\* one turn of the loop of Gpu::next, `add` dots long
Gpu_turn(x, add) ==
    Bind([x EXCEPT !.g.dots = (x.g.dots + add) % 456], LAMBDA x1:
    Bind(IF x.g.dots + add # x1.g.dots
         THEN Bind((x1.g.ly + 1) % 154, LAMBDA ly:
                [g |-> [x1.g EXCEPT !.ly = ly],
                 intf |-> IF x1.g.stat.ly_interrupt /\ ly = x1.g.lc
                          THEN Intf_hi(x1.intf, FlagLCDStat) ELSE x1.intf])
         ELSE x1, LAMBDA x2:
      IF x2.g.ly >= 144
      THEN IF x2.g.stat.mode = 1 THEN x2
           ELSE [g |-> [x2.g EXCEPT !.stat.mode = 1, !.v_blank = TRUE],
                 intf |-> IF x2.g.stat.m1_interrupt
                          THEN Intf_hi(Intf_hi(x2.intf, FlagVblank), FlagLCDStat)
                          ELSE Intf_hi(x2.intf, FlagVblank)]
      ELSE IF x2.g.dots <= 80
      THEN IF x2.g.stat.mode = 2 THEN x2
           ELSE [g |-> [x2.g EXCEPT !.stat.mode = 2],
                 intf |-> IF x2.g.stat.m2_interrupt
                          THEN Intf_hi(x2.intf, FlagLCDStat) ELSE x2.intf]
      ELSE IF x2.g.dots <= 252
      THEN [x2 EXCEPT !.g.stat.mode = 3]
      ELSE IF x2.g.stat.mode = 0 THEN x2
           ELSE [g |-> [x2.g EXCEPT !.stat.mode = 0, !.h_blank = TRUE],
                 intf |-> IF x2.g.stat.m0_interrupt
                          THEN Intf_hi(x2.intf, FlagLCDStat) ELSE x2.intf]))

RECURSIVE Gpu_loop(_, _, _, _)
Gpu_loop(x, i, c, cycles) ==
    IF i = c THEN x
    ELSE Gpu_loop(Gpu_turn(x, IF i = c - 1 THEN cycles % 80 ELSE 80),
                  i + 1, c, cycles)

Gpu_next(g, intf, cycles) ==
    IF BitAnd(g.lcdc, 128) = 0 THEN [g |-> g, intf |-> intf]
    ELSE IF cycles = 0 THEN [g |-> [g EXCEPT !.h_blank = FALSE], intf |-> intf]
    ELSE Gpu_loop([g |-> [g EXCEPT !.h_blank = FALSE], intf |-> intf],
                  0, (cycles - 1) \div 80 + 1, cycles)

\* Mmunit::switch_speed
switch_speed(m) ==
    [m EXCEPT !.speed = IF m.shift
                        THEN IF m.speed = SpeedDouble THEN SpeedNormal
                             ELSE SpeedDouble
                        ELSE m.speed,
              !.shift = FALSE]

\* the copy loop of run_dma_hrampart: bytes i..15 of the chunk
RECURSIVE hram_copy(_, _, _)
hram_copy(m, src, i) ==
    IF i = 16 THEN OkM(m)
    ELSE IF src + i > 65535 \/ ~Gpu_handles(m.hdma.dst + i) THEN FailM(m)
    ELSE Bind(Mmunit_get(m, src + i), LAMBDA b:
           IF b = Panic THEN FailM(m)
           ELSE Carry([m EXCEPT !.gpu = Gpu_set(m.gpu, m.hdma.dst + i, b)],
                      LAMBDA m1: hram_copy(m1, src, i + 1)))

\* Mmunit::run_dma_hrampart; src += 0x10 on a u16 is taken as checked
run_dma_hrampart(m) ==
    Carry(hram_copy(m, m.hdma.src, 0), LAMBDA r:
      IF ~r.ok \/ m.hdma.src + 16 > 65535 THEN FailM(m)
      ELSE OkM([r.m EXCEPT !.hdma.src = @ + 16,
                           !.hdma.dst = @ + 16,
                           !.hdma.remain = IF @ = 0 THEN 127 ELSE @ - 1]))

RECURSIVE dma_parts(_, _)
dma_parts(m, len) ==
    IF len = 0 THEN OkM(m)
    ELSE Bind(run_dma_hrampart(m), LAMBDA r:
           IF ~r.ok THEN r ELSE dma_parts(r.m, len - 1))

\* Mmunit::run_dma: [m, ok, v] with v the cycles the transfer took
run_dma(m) ==
    IF ~m.hdma.active THEN [m |-> m, ok |-> TRUE, v |-> 0]
    ELSE IF m.hdma.mode = "Gdma"
    THEN Bind(dma_parts(m, m.hdma.remain + 1), LAMBDA r:
           [m |-> [r.m EXCEPT !.hdma.active = FALSE], ok |-> r.ok,
            v |-> (m.hdma.remain + 1) * 8])
    ELSE IF ~m.gpu.h_blank THEN [m |-> m, ok |-> TRUE, v |-> 0]
    ELSE Carry(run_dma_hrampart(m), LAMBDA r:
           [m |-> [r.m EXCEPT !.hdma.active =
                                  IF r.m.hdma.remain = 127 THEN FALSE ELSE @],
            ok |-> r.ok, v |-> 8])

\* Mmunit::next(cycles): [m, ok, v, time_cycles] with v the cycles handed to
\* the GPU and the APU and time_cycles those handed to the timer. Apu::next
\* moves the sound channels only, which no register read of the model shows.
Mmunit_next(m, cycles) ==
    Carry(run_dma(m), LAMBDA d:
      IF ~d.ok THEN [m |-> m, ok |-> FALSE, v |-> 0, time_cycles |-> 0]
      ELSE
      Bind(cycles \div d.m.speed + d.v, LAMBDA gpu_cycles:
      Bind(cycles + d.v * d.m.speed, LAMBDA cpu_cycles:
      Bind(Timer_next(d.m.time, d.m.intf, cpu_cycles), LAMBDA t:
      Bind(Gpu_next(d.m.gpu, t.intf, gpu_cycles), LAMBDA g:
        [m |-> [d.m EXCEPT !.time = t.t, !.gpu = g.g, !.intf = g.intf],
         ok |-> TRUE, v |-> gpu_cycles, time_cycles |-> cpu_cycles])))))

-----------------------------------------------------------------------------
(* Arithmetic unit: the alu_* methods of src/src/cpu.rs, on the register   *)
(* file r. A method that returns a byte gives [r |-> registers, v |-> it]. *)

\* the four set_flag calls of a method, in the order c, h, n, z
Flags(r, c, h, n, z) ==
    set_flag(set_flag(set_flag(set_flag(r, CarryFlag, c), HalfCarryFlag, h),
                      SubtractionFlag, n), ZeroFlag, z)
B2N(b) == IF b THEN 1 ELSE 0

alu_add_nocarry(r, value) ==
    LET a == r.a_reg
        res == W8(a + value)
    IN [Flags(r, FALSE, BitAnd(a, 15) + BitAnd(value, 15) > 15, FALSE, res = 0)
          EXCEPT !.a_reg = res]
alu_add(r, value) ==
    LET a == r.a_reg
        res == W8(a + value)
    IN [Flags(r, a + value > 255, BitAnd(a, 15) + BitAnd(value, 15) > 15,
              FALSE, res = 0)
          EXCEPT !.a_reg = res]
alu_adc(r, value) ==
    LET a == r.a_reg
        c == B2N(get_flag(r, CarryFlag))
        res == W8(W8(a + value) + c)
    IN [Flags(r, a + value + c > 255,
              BitAnd(a, 15) + BitAnd(value, 15) + BitAnd(c, 15) > 15,
              FALSE, res = 0)
          EXCEPT !.a_reg = res]
alu_sub(r, value) ==
    LET a == r.a_reg
        res == W8(a - value)
    IN [Flags(r, a < value, BitAnd(a, 15) < BitAnd(value, 15), TRUE, res = 0)
          EXCEPT !.a_reg = res]
alu_sbc(r, value) ==
    LET a == r.a_reg
        c == B2N(get_flag(r, CarryFlag))
        res == W8(W8(a - value) - c)
    IN [Flags(r, a < value + c, BitAnd(a, 15) < BitAnd(value, 15) + c,
              TRUE, res = 0)
          EXCEPT !.a_reg = res]
alu_and(r, value) ==
    LET res == BitAnd(r.a_reg, value)
    IN [Flags(r, FALSE, TRUE, FALSE, res = 0) EXCEPT !.a_reg = res]
alu_xor(r, value) ==
    LET res == BitXor(r.a_reg, value)
    IN [Flags(r, FALSE, FALSE, FALSE, res = 0) EXCEPT !.a_reg = res]
alu_or(r, value) ==
    LET res == BitOr(r.a_reg, value)
    IN [Flags(r, FALSE, FALSE, FALSE, res = 0) EXCEPT !.a_reg = res]
alu_cp(r, value) == [alu_sub(r, value) EXCEPT !.a_reg = r.a_reg]

\* the three set_flag calls of the methods that leave Carry alone
FlagsHNZ(r, h, n, z) ==
    set_flag(set_flag(set_flag(r, HalfCarryFlag, h), SubtractionFlag, n),
             ZeroFlag, z)
\* alu_inc written with the four-flag helper: Carry is cleared
alu_inc_clears_carry(r, value) ==
    LET res == W8(value + 1)
    IN [r |-> Flags(r, FALSE, BitAnd(value, 15) + 1 > 15, FALSE, res = 0),
        v |-> res]
alu_inc(r, value) ==
    LET res == W8(value + 1)
    IN [r |-> FlagsHNZ(r, BitAnd(value, 15) + 1 > 15, FALSE, res = 0), v |-> res]
alu_dec(r, value) ==
    LET res == W8(value - 1)
    IN [r |-> FlagsHNZ(r, TrailingZeros(value) >= 4, TRUE, res = 0), v |-> res]
alu_add_hl(r, value) ==
    LET a == parse_hl(r)
        res == W16(a + value)
        r1 == set_flag(r, CarryFlag, a > 65535 - value)
        r2 == set_flag(r1, HalfCarryFlag,
                       BitAnd(a, 4095) + BitAnd(value, 4095) > 4095)
    IN set_hl(set_flag(r2, SubtractionFlag, FALSE), res)
\* i16::from(v as i8) as u16
SignExtend(v) == W16(AsI8(v))
\* alu_add_sp after its imm(): b is the immediate byte
alu_add_sp(r, b0) ==
    LET a == r.stack_pointer
        b == SignExtend(b0)
    IN [Flags(r, BitAnd(a, 255) + BitAnd(b, 255) > 255,
              BitAnd(a, 15) + BitAnd(b, 15) > 255, FALSE, FALSE)
          EXCEPT !.stack_pointer = W16(a + b)]
alu_swap(r, value) ==
    [r |-> Flags(r, FALSE, FALSE, FALSE, value = 0),
     v |-> BitOr(Shr(value, 4), Shl8(value, 4))]
alu_daa_high_only(r) ==
    LET a == r.a_reg
        adjust == IF get_flag(r, CarryFlag) \/ a > 153 THEN 96 ELSE 0
        res == W8(a + adjust)
        r1 == set_flag(r, CarryFlag, adjust >= 96)
        r2 == set_flag(r1, HalfCarryFlag, FALSE)
    IN [set_flag(r2, ZeroFlag, res = 0) EXCEPT !.a_reg = res]
alu_daa(r) ==
    LET a == r.a_reg
        adj0 == IF get_flag(r, CarryFlag) THEN 96 ELSE 0
        adj1 == IF get_flag(r, HalfCarryFlag) THEN BitOr(adj0, 6) ELSE adj0
        adj2 == IF BitAnd(a, 15) > 9 THEN BitOr(adj1, 6) ELSE adj1
        adj3 == IF a > 153 THEN BitOr(adj2, 96) ELSE adj2
        adjust == IF ~get_flag(r, SubtractionFlag) THEN adj3 ELSE adj1
        res == IF ~get_flag(r, SubtractionFlag) THEN W8(a + adjust)
               ELSE W8(a - adjust)
        r1 == set_flag(r, CarryFlag, adjust >= 96)
        r2 == set_flag(r1, HalfCarryFlag, FALSE)
    IN [set_flag(r2, ZeroFlag, res = 0) EXCEPT !.a_reg = res]
alu_cpl(r) ==
    set_flag(set_flag([r EXCEPT !.a_reg = Not8(r.a_reg)], HalfCarryFlag, TRUE),
             SubtractionFlag, TRUE)
alu_ccf(r) ==
    LET v == ~get_flag(r, CarryFlag)
    IN set_flag(set_flag(set_flag(r, CarryFlag, v), HalfCarryFlag, FALSE),
                SubtractionFlag, FALSE)
alu_scf(r) ==
    set_flag(set_flag(set_flag(r, CarryFlag, TRUE), HalfCarryFlag, FALSE),
             SubtractionFlag, FALSE)
alu_rlc(r, value) ==
    LET c == Shr(BitAnd(value, 128), 7) = 1
        res == BitOr(Shl8(value, 1), B2N(c))
    IN [r |-> Flags(r, c, FALSE, FALSE, res = 0), v |-> res]
alu_rl(r, value) ==
    LET c == Shr(BitAnd(value, 128), 7) = 1
        res == Shl8(value, 1) + B2N(get_flag(r, CarryFlag))
    IN [r |-> Flags(r, c, FALSE, FALSE, res = 0), v |-> res]
alu_rrc(r, value) ==
    LET c == BitAnd(value, 1) = 1
        res == IF c THEN BitOr(128, Shr(value, 1)) ELSE Shr(value, 1)
    IN [r |-> Flags(r, c, FALSE, FALSE, res = 0), v |-> res]
alu_rr(r, value) ==
    LET c == BitAnd(value, 1) = 1
        res == IF get_flag(r, CarryFlag) THEN BitOr(128, Shr(value, 1))
               ELSE Shr(value, 1)
    IN [r |-> Flags(r, c, FALSE, FALSE, res = 0), v |-> res]
alu_sla(r, value) ==
    LET c == Shr(BitAnd(value, 128), 7) = 1
        res == Shl8(value, 1)
    IN [r |-> Flags(r, c, FALSE, FALSE, res = 0), v |-> res]
alu_sra(r, value) ==
    LET c == BitAnd(value, 1) = 1
        res == BitOr(Shr(value, 1), BitAnd(value, 128))
    IN [r |-> Flags(r, c, FALSE, FALSE, res = 0), v |-> res]
alu_srl(r, value) ==
    LET c == BitAnd(value, 1) = 1
        res == Shr(value, 1)
    IN [r |-> Flags(r, c, FALSE, FALSE, res = 0), v |-> res]
alu_bit(r, value, bit) ==
    FlagsHNZ(r, TRUE, FALSE, BitAnd(value, Pow2(bit)) = 0)
alu_set(value, bit) == BitOr(value, Pow2(bit))
alu_res(value, bit) == BitAnd(value, Not8(Pow2(bit)))
\* alu_jr: program_counter + (value as i8), cut to sixteen bits
alu_jr(r, value) ==
    [r EXCEPT !.program_counter = W16(r.program_counter + AsI8(value))]

-----------------------------------------------------------------------------
(* The interpreter: src/src/cpu.rs. The machine s is the Cpu with the      *)
(* Mmunit it shares: [reg, mem, halted, ei, panic]. A method that returns  *)
(* a value gives [s |-> machine, v |-> value].                             *)

\* OP_CYCLES[i] and CB_CYCLES[i] are OP_CYCLES_T[i + 1] and CB_CYCLES_T[i + 1]
OP_CYCLES_T ==
    <<1, 3, 2, 2, 1, 1, 2, 1, 5, 2, 2, 2, 1, 1, 2, 1,
      0, 3, 2, 2, 1, 1, 2, 1, 3, 2, 2, 2, 1, 1, 2, 1,
      2, 3, 2, 2, 1, 1, 2, 1, 2, 2, 2, 2, 1, 1, 2, 1,
      2, 3, 2, 2, 3, 3, 3, 1, 2, 2, 2, 2, 1, 1, 2, 1,
      1, 1, 1, 1, 1, 1, 2, 1, 1, 1, 1, 1, 1, 1, 2, 1,
      1, 1, 1, 1, 1, 1, 2, 1, 1, 1, 1, 1, 1, 1, 2, 1,
      1, 1, 1, 1, 1, 1, 2, 1, 1, 1, 1, 1, 1, 1, 2, 1,
      2, 2, 2, 2, 2, 2, 0, 2, 1, 1, 1, 1, 1, 1, 2, 1,
      1, 1, 1, 1, 1, 1, 2, 1, 1, 1, 1, 1, 1, 1, 2, 1,
      1, 1, 1, 1, 1, 1, 2, 1, 1, 1, 1, 1, 1, 1, 2, 1,
      1, 1, 1, 1, 1, 1, 2, 1, 1, 1, 1, 1, 1, 1, 2, 1,
      1, 1, 1, 1, 1, 1, 2, 1, 1, 1, 1, 1, 1, 1, 2, 1,
      2, 3, 3, 4, 3, 4, 2, 4, 2, 4, 3, 0, 3, 6, 2, 4,
      2, 3, 3, 0, 3, 4, 2, 4, 2, 4, 3, 0, 3, 0, 2, 4,
      3, 3, 2, 0, 0, 4, 2, 4, 4, 1, 4, 0, 0, 0, 2, 4,
      3, 3, 2, 1, 0, 4, 2, 4, 3, 2, 4, 1, 0, 0, 2, 4>>
CB_CYCLES_T ==
    <<2, 2, 2, 2, 2, 2, 4, 2, 2, 2, 2, 2, 2, 2, 4, 2,
      2, 2, 2, 2, 2, 2, 4, 2, 2, 2, 2, 2, 2, 2, 4, 2,
      2, 2, 2, 2, 2, 2, 4, 2, 2, 2, 2, 2, 2, 2, 4, 2,
      2, 2, 2, 2, 2, 2, 4, 2, 2, 2, 2, 2, 2, 2, 4, 2,
      2, 2, 2, 2, 2, 2, 3, 2, 2, 2, 2, 2, 2, 2, 3, 2,
      2, 2, 2, 2, 2, 2, 3, 2, 2, 2, 2, 2, 2, 2, 3, 2,
      2, 2, 2, 2, 2, 2, 3, 2, 2, 2, 2, 2, 2, 2, 3, 2,
      2, 2, 2, 2, 2, 2, 3, 2, 2, 2, 2, 2, 2, 2, 3, 2,
      2, 2, 2, 2, 2, 2, 4, 2, 2, 2, 2, 2, 2, 2, 4, 2,
      2, 2, 2, 2, 2, 2, 4, 2, 2, 2, 2, 2, 2, 2, 4, 2,
      2, 2, 2, 2, 2, 2, 4, 2, 2, 2, 2, 2, 2, 2, 4, 2,
      2, 2, 2, 2, 2, 2, 4, 2, 2, 2, 2, 2, 2, 2, 4, 2,
      2, 2, 2, 2, 2, 2, 4, 2, 2, 2, 2, 2, 2, 2, 4, 2,
      2, 2, 2, 2, 2, 2, 4, 2, 2, 2, 2, 2, 2, 2, 4, 2,
      2, 2, 2, 2, 2, 2, 4, 2, 2, 2, 2, 2, 2, 2, 4, 2,
      2, 2, 2, 2, 2, 2, 4, 2, 2, 2, 2, 2, 2, 2, 4, 2>>
OP_CYCLES(i) == OP_CYCLES_T[i + 1]
CB_CYCLES(i) == CB_CYCLES_T[i + 1]

\* self.mem.borrow().get(a) / get_word(a)
MemGet(s, a) ==
    Bind(Mmunit_get(s.mem, a), LAMBDA v:
      IF v = Panic THEN [s |-> [s EXCEPT !.panic = TRUE], v |-> 0]
      ELSE [s |-> s, v |-> v])
MemGetWord(s, a) ==
    Bind(Memory_get_word(s.mem, a), LAMBDA v:
      IF v = Panic THEN [s |-> [s EXCEPT !.panic = TRUE], v |-> 0]
      ELSE [s |-> s, v |-> v])
\* self.mem.borrow_mut().set(a, v) / set_word(a, v)
MemSet(s, a, v) ==
    Bind(Mmunit_set(s.mem, a, v), LAMBDA r:
      IF r.ok THEN [s EXCEPT !.mem = r.m] ELSE [s EXCEPT !.panic = TRUE])
MemSetWord(s, a, v) ==
    Bind(Memory_set_word(s.mem, a, v), LAMBDA r:
      IF r.ok THEN [s EXCEPT !.mem = r.m] ELSE [s EXCEPT !.panic = TRUE])

imm_skip(s) ==
    Bind(MemGet(s, s.reg.program_counter), LAMBDA r:
      [s |-> [r.s EXCEPT !.reg.program_counter = W16(@ + 2)], v |-> r.v])
imm(s) ==
    Bind(MemGet(s, s.reg.program_counter), LAMBDA r:
      [s |-> [r.s EXCEPT !.reg.program_counter = W16(@ + 1)], v |-> r.v])
imm_word(s) ==
    Bind(MemGetWord(s, s.reg.program_counter), LAMBDA r:
      [s |-> [r.s EXCEPT !.reg.program_counter = W16(@ + 2)], v |-> r.v])
stack_add(s, insert) ==
    MemSetWord([s EXCEPT !.reg.stack_pointer = W16(@ - 2)],
               W16(s.reg.stack_pointer - 2), insert)
stack_pop_keeps_sp(s) ==
    Bind(MemGetWord(s, s.reg.stack_pointer), LAMBDA r: [s |-> r.s, v |-> r.v])
stack_pop(s) ==
    Bind(MemGetWord(s, s.reg.stack_pointer), LAMBDA r:
      [s |-> [r.s EXCEPT !.reg.stack_pointer = W16(@ + 2)], v |-> r.v])

\* The operand numbered i in an opcode: b, c, d, e, h, l, (HL), a
Reg8(r, i) ==
    CASE i = 0 -> r.b_reg [] i = 1 -> r.c_reg [] i = 2 -> r.d_reg
      [] i = 3 -> r.e_reg [] i = 4 -> r.h_reg [] i = 5 -> r.l_reg
      [] i = 7 -> r.a_reg
SetReg8(r, i, v) ==
    CASE i = 0 -> [r EXCEPT !.b_reg = v] [] i = 1 -> [r EXCEPT !.c_reg = v]
      [] i = 2 -> [r EXCEPT !.d_reg = v] [] i = 3 -> [r EXCEPT !.e_reg = v]
      [] i = 4 -> [r EXCEPT !.h_reg = v] [] i = 5 -> [r EXCEPT !.l_reg = v]
      [] i = 7 -> [r EXCEPT !.a_reg = v]
Operand(s, i) ==
    IF i = 6 THEN MemGet(s, parse_hl(s.reg)) ELSE [s |-> s, v |-> Reg8(s.reg, i)]
Store(s, i, v) ==
    IF i = 6 THEN MemSet(s, parse_hl(s.reg), v)
    ELSE [s EXCEPT !.reg = SetReg8(s.reg, i, v)]

\* Cpu::hi: interrupt dispatch; v is the cycle count it returns
hi_keep_ei(s) ==
    IF ~s.halted /\ ~s.ei THEN [s |-> s, v |-> 0]
    ELSE Bind(MemGet(s, 65295), LAMBDA r1:
         Bind(MemGet(r1.s, 65535), LAMBDA r2:
         Bind(BitAnd(r1.v, r2.v), LAMBDA ii:
           IF ii = 0 THEN [s |-> r2.s, v |-> 0]
           ELSE Bind([r2.s EXCEPT !.halted = FALSE], LAMBDA s1:
                IF ~s1.ei THEN [s |-> s1, v |-> 0]
                ELSE Bind(TrailingZeros(ii), LAMBDA n:
                     Bind(MemSet(s1, 65295, BitAnd(r1.v, Not8(Pow2(n)))),
                          LAMBDA s3:
                     Bind(stack_add(s3, s3.reg.program_counter), LAMBDA s4:
                       [s |-> [s4 EXCEPT !.reg.program_counter =
                                             BitOr(64, n * 8)],
                        v |-> 4])))))))
hi_while_disabled(s) ==
    Bind(MemGet(s, 65295), LAMBDA r1:
    Bind(MemGet(r1.s, 65535), LAMBDA r2:
    Bind(BitAnd(r1.v, r2.v), LAMBDA ii:
      IF ii = 0 THEN [s |-> r2.s, v |-> 0]
      ELSE Bind(TrailingZeros(ii), LAMBDA n:
           Bind(MemSet([r2.s EXCEPT !.halted = FALSE, !.ei = FALSE], 65295,
                       BitAnd(r1.v, Not8(Pow2(n)))), LAMBDA s3:
           Bind(stack_add(s3, s3.reg.program_counter), LAMBDA s4:
             [s |-> [s4 EXCEPT !.reg.program_counter = BitOr(64, n * 8)],
              v |-> 4]))))))
hi_no_wake(s) ==
    IF ~s.halted /\ ~s.ei THEN [s |-> s, v |-> 0]
    ELSE Bind(MemGet(s, 65295), LAMBDA r1:
         Bind(MemGet(r1.s, 65535), LAMBDA r2:
         Bind(BitAnd(r1.v, r2.v), LAMBDA ii:
           IF ii = 0 THEN [s |-> r2.s, v |-> 0]
           ELSE IF ~r2.s.ei THEN [s |-> r2.s, v |-> 0]
           ELSE Bind(TrailingZeros(ii), LAMBDA n:
                Bind(MemSet([r2.s EXCEPT !.halted = FALSE, !.ei = FALSE],
                            65295, BitAnd(r1.v, Not8(Pow2(n)))), LAMBDA s3:
                Bind(stack_add(s3, s3.reg.program_counter), LAMBDA s4:
                  [s |-> [s4 EXCEPT !.reg.program_counter = BitOr(64, n * 8)],
                   v |-> 4]))))))
hi(s) ==
    IF ~s.halted /\ ~s.ei THEN [s |-> s, v |-> 0]
    ELSE Bind(MemGet(s, 65295), LAMBDA r1:
         Bind(MemGet(r1.s, 65535), LAMBDA r2:
         Bind(BitAnd(r1.v, r2.v), LAMBDA ii:
           IF ii = 0 THEN [s |-> r2.s, v |-> 0]
           ELSE Bind([r2.s EXCEPT !.halted = FALSE], LAMBDA s1:
                IF ~s1.ei THEN [s |-> s1, v |-> 0]
                ELSE Bind(TrailingZeros(ii), LAMBDA n:
                     Bind(MemSet([s1 EXCEPT !.ei = FALSE], 65295,
                                 BitAnd(r1.v, Not8(Pow2(n)))), LAMBDA s3:
                     Bind(stack_add(s3, s3.reg.program_counter), LAMBDA s4:
                       [s |-> [s4 EXCEPT !.reg.program_counter =
                                             BitOr(64, n * 8)],
                        v |-> 4])))))))

\* ---- Cpu::ex, arm by arm; each takes the machine after the opcode fetch ----

\* LD r8, d8 (0x06 ... 0x3e); 0x36 stores the immediate at (HL)
ex_ld_r8_d8(s, opcode) ==
    Bind(imm(s), LAMBDA r: Store(r.s, Shr(opcode, 3), r.v))

\* LD (BC)/(DE), A; LD A, (BC)/(DE); LD (HL+/-), A; LD A, (HL+/-)
ex_ld_indirect(s, opcode) ==
    LET hl == parse_hl(s.reg)
        load(a) == Bind(MemGet(s, a), LAMBDA r: [r.s EXCEPT !.reg.a_reg = r.v])
        move(m, d) == [m EXCEPT !.reg = set_hl(m.reg, W16(hl + d))]
    IN
    CASE opcode = 2 -> MemSet(s, parse_bc(s.reg), s.reg.a_reg)
      [] opcode = 18 -> MemSet(s, parse_de(s.reg), s.reg.a_reg)
      [] opcode = 10 -> load(parse_bc(s.reg))
      [] opcode = 26 -> load(parse_de(s.reg))
      [] opcode = 34 -> move(MemSet(s, hl, s.reg.a_reg), 1)
      [] opcode = 50 -> move(MemSet(s, hl, s.reg.a_reg), 0 - 1)
      [] opcode = 42 -> move(load(hl), 1)
      [] opcode = 58 -> move(load(hl), 0 - 1)

\* LD r8, r8 (0x40 ... 0x7f but 0x76): destination bits 5-3, source bits 2-0
ex_ld_r8_r8(s, opcode) ==
    Bind(Operand(s, BitAnd(opcode, 7)), LAMBDA r:
      Store(r.s, BitAnd(Shr(opcode, 3), 7), r.v))

\* LDH (a8), A; LDH A, (a8); LD (C), A; LD A, (C); LD (a16), A; LD A, (a16)
ex_ld_high(s, opcode) ==
    LET load(m, a) == Bind(MemGet(m, a), LAMBDA g: [g.s EXCEPT !.reg.a_reg = g.v])
    IN
    CASE opcode = 224 ->
            Bind(imm(s), LAMBDA r: MemSet(r.s, BitOr(65280, r.v), r.s.reg.a_reg))
      [] opcode = 240 -> Bind(imm(s), LAMBDA r: load(r.s, BitOr(65280, r.v)))
      [] opcode = 226 -> MemSet(s, BitOr(65280, s.reg.c_reg), s.reg.a_reg)
      [] opcode = 242 -> load(s, BitOr(65280, s.reg.c_reg))
      [] opcode = 234 ->
            Bind(imm_word(s), LAMBDA r: MemSet(r.s, r.v, r.s.reg.a_reg))
      [] opcode = 250 -> Bind(imm_word(s), LAMBDA r: load(r.s, r.v))

\* LD r16, d16; LD SP, HL; LD HL, SP+e8 (0xf8); LD (a16), SP
ex_ld_r16(s, opcode) ==
    CASE opcode \in {1, 17, 33, 49} ->
            Bind(imm_word(s), LAMBDA r:
              CASE opcode = 1 -> [r.s EXCEPT !.reg = set_bc(r.s.reg, r.v)]
                [] opcode = 17 -> [r.s EXCEPT !.reg = set_de(r.s.reg, r.v)]
                [] opcode = 33 -> [r.s EXCEPT !.reg = set_hl(r.s.reg, r.v)]
                [] opcode = 49 -> [r.s EXCEPT !.reg.stack_pointer = r.v])
      [] opcode = 249 -> [s EXCEPT !.reg.stack_pointer = parse_hl(s.reg)]
      [] opcode = 248 ->
            Bind(imm(s), LAMBDA r:
              LET a == s.reg.stack_pointer
                  b == SignExtend(r.v)
                  f == Flags(r.s.reg, BitAnd(a, 255) + BitAnd(b, 255) > 255,
                             BitAnd(a, 15) + BitAnd(b, 15) > 15, FALSE, FALSE)
              IN [r.s EXCEPT !.reg = set_hl(f, W16(a + b))])
      [] opcode = 8 ->
            Bind(imm_word(s), LAMBDA r:
              MemSetWord(r.s, r.v, r.s.reg.stack_pointer))

\* PUSH and POP
ex_push_pop(s, opcode) ==
    CASE opcode = 197 -> stack_add(s, parse_bc(s.reg))
      [] opcode = 213 -> stack_add(s, parse_de(s.reg))
      [] opcode = 229 -> stack_add(s, parse_hl(s.reg))
      [] opcode = 245 -> stack_add(s, parse_af(s.reg))
      [] opcode \in {193, 209, 225, 241} ->
            Bind(stack_pop(s), LAMBDA r:
              CASE opcode = 193 -> [r.s EXCEPT !.reg = set_bc(r.s.reg, r.v)]
                [] opcode = 209 -> [r.s EXCEPT !.reg = set_de(r.s.reg, r.v)]
                [] opcode = 225 -> [r.s EXCEPT !.reg = set_hl(r.s.reg, r.v)]
                [] opcode = 241 -> [r.s EXCEPT !.reg = set_af(r.s.reg, r.v)])

\* the eight accumulator operations, numbered by bits 5-3 of the opcode
AluOp(r, k, v) ==
    CASE k = 0 -> alu_add(r, v) [] k = 1 -> alu_adc(r, v)
      [] k = 2 -> alu_sub(r, v) [] k = 3 -> alu_sbc(r, v)
      [] k = 4 -> alu_and(r, v) [] k = 5 -> alu_xor(r, v)
      [] k = 6 -> alu_or(r, v) [] k = 7 -> alu_cp(r, v)
\* ADD/ADC/SUB/SBC/AND/XOR/OR/CP A, r8 (0x80 ... 0xbf) and A, d8
ex_alu(s, opcode) ==
    Bind(IF opcode >= 192 THEN imm(s) ELSE Operand(s, BitAnd(opcode, 7)),
         LAMBDA r:
           [r.s EXCEPT !.reg = AluOp(r.s.reg, BitAnd(Shr(opcode, 3), 7), r.v)])

\* INC r8 / DEC r8; 0x34 and 0x35 work on (HL)
ex_inc_dec_r8(s, opcode) ==
    Bind(Operand(s, Shr(opcode, 3)), LAMBDA r:
    Bind(IF BitAnd(opcode, 7) = 4 THEN alu_inc(r.s.reg, r.v)
         ELSE alu_dec(r.s.reg, r.v), LAMBDA x:
      Store([r.s EXCEPT !.reg = x.r], Shr(opcode, 3), x.v)))

\* ADD HL, r16; ADD SP, e8; INC r16; DEC r16
ex_arith16(s, opcode) ==
    CASE opcode = 9 -> [s EXCEPT !.reg = alu_add_hl(s.reg, parse_bc(s.reg))]
      [] opcode = 25 -> [s EXCEPT !.reg = alu_add_hl(s.reg, parse_de(s.reg))]
      [] opcode = 41 -> [s EXCEPT !.reg = alu_add_hl(s.reg, parse_hl(s.reg))]
      [] opcode = 57 -> [s EXCEPT !.reg = alu_add_hl(s.reg, s.reg.stack_pointer)]
      [] opcode = 232 ->
            \* alu_add_sp reads SP before its imm(); imm() leaves SP alone
            Bind(imm(s), LAMBDA r: [r.s EXCEPT !.reg = alu_add_sp(r.s.reg, r.v)])
      [] opcode = 3 -> [s EXCEPT !.reg = set_bc(s.reg, W16(parse_bc(s.reg) + 1))]
      [] opcode = 19 -> [s EXCEPT !.reg = set_de(s.reg, W16(parse_de(s.reg) + 1))]
      [] opcode = 35 -> [s EXCEPT !.reg = set_hl(s.reg, W16(parse_hl(s.reg) + 1))]
      [] opcode = 51 -> [s EXCEPT !.reg.stack_pointer = W16(@ + 1)]
      [] opcode = 11 -> [s EXCEPT !.reg = set_bc(s.reg, W16(parse_bc(s.reg) - 1))]
      [] opcode = 27 -> [s EXCEPT !.reg = set_de(s.reg, W16(parse_de(s.reg) - 1))]
      [] opcode = 43 -> [s EXCEPT !.reg = set_hl(s.reg, W16(parse_hl(s.reg) - 1))]
      [] opcode = 59 -> [s EXCEPT !.reg.stack_pointer = W16(@ - 1)]

\* DAA, CPL, CCF, SCF, NOP, HALT, STOP, DI, EI, RLCA, RLA, RRCA, RRA
ex_misc(s, opcode) ==
    LET rot(x) == [s EXCEPT !.reg = set_flag([x.r EXCEPT !.a_reg = x.v],
                                             ZeroFlag, FALSE)]
    IN
    CASE opcode = 39 -> [s EXCEPT !.reg = alu_daa(s.reg)]
      [] opcode = 47 -> [s EXCEPT !.reg = alu_cpl(s.reg)]
      [] opcode = 63 -> [s EXCEPT !.reg = alu_ccf(s.reg)]
      [] opcode = 55 -> [s EXCEPT !.reg = alu_scf(s.reg)]
      [] opcode = 0 -> s
      [] opcode = 118 -> [s EXCEPT !.halted = TRUE]
      [] opcode = 16 -> s
      [] opcode = 243 -> [s EXCEPT !.ei = FALSE]
      [] opcode = 251 -> [s EXCEPT !.ei = TRUE]
      [] opcode = 7 -> rot(alu_rlc(s.reg, s.reg.a_reg))
      [] opcode = 23 -> rot(alu_rl(s.reg, s.reg.a_reg))
      [] opcode = 15 -> rot(alu_rrc(s.reg, s.reg.a_reg))
      [] opcode = 31 -> rot(alu_rr(s.reg, s.reg.a_reg))

\* the condition a conditional opcode tests: bits 4-3 pick NZ, Z, NC, C
Cond(r, opcode) ==
    LET k == BitAnd(Shr(opcode, 3), 3) IN
    CASE k = 0 -> ~get_flag(r, ZeroFlag)
      [] k = 1 -> get_flag(r, ZeroFlag)
      [] k = 2 -> ~get_flag(r, CarryFlag)
      [] k = 3 -> get_flag(r, CarryFlag)

\* JP a16, JP (HL), JP cc, JR e8, JR cc
ex_jump(s, opcode) ==
    CASE opcode = 195 ->
            Bind(imm_word(s), LAMBDA r: [r.s EXCEPT !.reg.program_counter = r.v])
      [] opcode = 233 -> [s EXCEPT !.reg.program_counter = parse_hl(s.reg)]
      [] opcode \in {194, 202, 210, 218} ->
            Bind(imm_word(s), LAMBDA r:
              IF Cond(r.s.reg, opcode)
              THEN [r.s EXCEPT !.reg.program_counter = r.v]
              ELSE r.s)
      [] opcode = 24 ->
            Bind(imm(s), LAMBDA r: [r.s EXCEPT !.reg = alu_jr(r.s.reg, r.v)])
      [] opcode \in {32, 40, 48, 56} ->
            Bind(imm(s), LAMBDA r:
              IF Cond(s.reg, opcode)
              THEN [r.s EXCEPT !.reg = alu_jr(r.s.reg, r.v)]
              ELSE r.s)

\* CALL a16, CALL cc, RST, RET, RET cc, RETI
ex_call_ret(s, opcode) ==
    LET call(m, nn) ==
            [stack_add(m, m.reg.program_counter) EXCEPT !.reg.program_counter = nn]
        return(m) ==
            Bind(stack_pop(m), LAMBDA r: [r.s EXCEPT !.reg.program_counter = r.v])
    IN
    CASE opcode = 205 -> Bind(imm_word(s), LAMBDA r: call(r.s, r.v))
      [] opcode \in {196, 204, 212, 220} ->
            Bind(imm_word(s), LAMBDA r:
              IF Cond(s.reg, opcode) THEN call(r.s, r.v) ELSE r.s)
      [] opcode \in {199, 207, 215, 223, 231, 239, 247, 255} ->
            call(s, opcode - 199)
      [] opcode = 201 -> return(s)
      [] opcode \in {192, 200, 208, 216} ->
            IF Cond(s.reg, opcode) THEN return(s) ELSE s
      [] opcode = 217 -> [return(s) EXCEPT !.ei = TRUE]

\* the 0xcb arm after its fetch of cbcode
ex_cb(s, cbcode) ==
    LET i == BitAnd(cbcode, 7)
        k == BitAnd(Shr(cbcode, 3), 7)
        shift(r, v) ==
            CASE k = 0 -> alu_rlc(r, v) [] k = 1 -> alu_rrc(r, v)
              [] k = 2 -> alu_rl(r, v) [] k = 3 -> alu_rr(r, v)
              [] k = 4 -> alu_sla(r, v) [] k = 5 -> alu_sra(r, v)
              [] k = 6 -> alu_swap(r, v) [] k = 7 -> alu_srl(r, v)
    IN Bind(Operand(s, i), LAMBDA r:
         CASE cbcode <= 63 ->
                Bind(shift(r.s.reg, r.v), LAMBDA x:
                  Store([r.s EXCEPT !.reg = x.r], i, x.v))
           [] InRange(cbcode, 64, 127) ->
                [r.s EXCEPT !.reg = alu_bit(r.s.reg, r.v, k)]
           [] InRange(cbcode, 128, 191) -> Store(r.s, i, alu_res(r.v, k))
           [] InRange(cbcode, 192, 255) -> Store(r.s, i, alu_set(r.v, k)))

\* the opcodes whose arm is panic!("Opcode ... is not implemented")
Unimplemented == {211, 219, 221, 227, 228, 235, 236, 237, 244, 252, 253}

\* the extra machine cycles of a conditional opcode, from the flags after it
ecycle(r, opcode) ==
    LET z == get_flag(r, ZeroFlag) IN
    CASE opcode \in {32, 48} -> IF z THEN 0 ELSE 1
      [] opcode \in {40, 56} -> IF z THEN 1 ELSE 0
      [] opcode \in {192, 208} -> IF z THEN 0 ELSE 3
      [] opcode \in {200, 204, 216, 220} -> IF z THEN 3 ELSE 0
      [] opcode \in {194, 210} -> IF z THEN 0 ELSE 1
      [] opcode \in {202, 218} -> IF z THEN 1 ELSE 0
      [] opcode \in {196, 212} -> IF z THEN 0 ELSE 3
      [] OTHER -> 0

\* the match of ex on the fetched opcode; v is cbcode, the byte the 0xcb arm
\* fetched, and 0 for every other opcode
Dispatch(s, opcode) ==
    LET plain(m) == [s |-> m, v |-> 0] IN
    CASE opcode \in Unimplemented -> plain([s EXCEPT !.panic = TRUE])
      [] opcode = 203 ->
            Bind(imm(s), LAMBDA r: [s |-> ex_cb(r.s, r.v), v |-> r.v])
      [] opcode \in {6, 14, 22, 30, 38, 46, 54, 62} -> plain(ex_ld_r8_d8(s, opcode))
      [] opcode \in {2, 18, 10, 26, 34, 50, 42, 58} ->
            plain(ex_ld_indirect(s, opcode))
      [] InRange(opcode, 64, 127) /\ opcode # 118 -> plain(ex_ld_r8_r8(s, opcode))
      [] opcode \in {224, 240, 226, 242, 234, 250} -> plain(ex_ld_high(s, opcode))
      [] opcode \in {1, 17, 33, 49, 249, 248, 8} -> plain(ex_ld_r16(s, opcode))
      [] opcode \in {197, 213, 229, 245, 193, 209, 225, 241} ->
            plain(ex_push_pop(s, opcode))
      [] InRange(opcode, 128, 191)
           \/ opcode \in {198, 206, 214, 222, 230, 238, 246, 254} ->
            plain(ex_alu(s, opcode))
      [] opcode \in {4, 12, 20, 28, 36, 44, 52, 60,
                     5, 13, 21, 29, 37, 45, 53, 61} ->
            plain(ex_inc_dec_r8(s, opcode))
      [] opcode \in {9, 25, 41, 57, 232, 3, 19, 35, 51, 11, 27, 43, 59} ->
            plain(ex_arith16(s, opcode))
      [] opcode \in {39, 47, 63, 55, 0, 118, 16, 243, 251, 7, 23, 15, 31} ->
            plain(ex_misc(s, opcode))
      [] opcode \in {195, 233, 194, 202, 210, 218, 24, 32, 40, 48, 56} ->
            plain(ex_jump(s, opcode))
      [] opcode \in {205, 196, 204, 212, 220, 199, 207, 215, 223, 231, 239,
                     247, 255, 201, 192, 200, 208, 216, 217} ->
            plain(ex_call_ret(s, opcode))

\* Cpu::ex: fetch, dispatch, count the cycles
ex(s) ==
    Bind(imm(s), LAMBDA f:
    Bind(Dispatch(f.s, f.v), LAMBDA d:
      [s |-> d.s,
       v |-> IF f.v = 203 THEN CB_CYCLES(d.v)
             ELSE OP_CYCLES(f.v) + ecycle(d.s.reg, f.v)]))

\* Cpu::next: one step of the processor, in clock cycles
next_runs_halted(s) ==
    Bind(hi(s), LAMBDA h:
    Bind(IF h.v # 0 THEN h ELSE ex(h.s), LAMBDA e:
      [s |-> e.s, v |-> e.v * 4]))
next(s) ==
    Bind(hi(s), LAMBDA h:
    Bind(IF h.v # 0 THEN h
         ELSE IF h.s.halted THEN [s |-> h.s, v |-> OP_CYCLES(0)]
         ELSE ex(h.s), LAMBDA e:
      [s |-> e.s, v |-> e.v * 4]))

\* Cpu::power_up
CpuPowerUp(term) == [reg |-> RegisterPowerUp(term), halted |-> FALSE, ei |-> TRUE]

-----------------------------------------------------------------------------
(* Specifications *)

\* Cartridges the loader's match on header byte 0x0147 builds: ROM of two or
\* four 16 KiB banks, RAM as sized by header byte 0x0149 (or 512 for MBC2).
RtcNow == 1 * 86400 + 2 * 3600 + 3 * 60 + 4
CartShapes ==
    {<<"RomOnly", 2, 0>>,
     <<"Mbc1", 2, 0>>, <<"Mbc1", 4, 2048>>, <<"Mbc1", 4, 8192>>,
     <<"Mbc1", 4, 32768>>,
     <<"Mbc2", 4, 512>>,
     <<"Mbc3", 2, 0>>, <<"Mbc3", 4, 32768>>,
     <<"Mbc5", 4, 0>>}
CartMenu ==
    {CartridgePowerUp(k[1], k[2] * BankSize, k[3], 0, RtcNow) : k \in CartShapes}

\* ---- the processor running a program from ROM ----
MaxCpuSteps == 7

\* The image with `prog` at the entry point 0x0100
WithProgram(c, prog) ==
    [c EXCEPT !.rom = [i \in 256..(255 + Len(prog)) |-> prog[i - 255]]]

\* LD A,a; LD B,b; ADD A,B; SUB B
ProgAlu == {<<62, a, 6, b, 128, 144>> : a \in {0, 15, 58, 128, 255},
                                         b \in {0, 1, 128, 198, 241}}
\* LD SP,sp; LD A,ie; LDH (0xFF),A; LD A,if; LDH (0x0F),A; NOP
ProgInterrupt ==
    {<<49, sp % 256, sp \div 256, 62, ie, 224, 255, 62, if, 224, 15, 0>> :
        sp \in {65534, 53248, 57344, 65297, 0},
        ie \in {31, 4, 255},
        if \in {1, 6, 20, 224}}
\* DI or NOP; LD A,ie; LDH (0xFF),A; HALT; then NOP or INC B
ProgHalt ==
    {<<first, 62, ie, 224, 255, 118, after>> :
        first \in {243, 0}, ie \in {16, 31, 0}, after \in {0, 4}}
\* every primary opcode, and every extended opcode, at the entry point
ProgOpcode == {<<code, 52, 18>> : code \in 0..255}
ProgExtended == {<<203, cbcode>> : cbcode \in 0..255}
\* LD BC,0x12FF; PUSH BC; POP AF  and  LD HL,0xA000; LD A,(HL)
ProgOther == {<<1, 255, 18, 197, 241>>, <<33, 0, 160, 126>>}
Programs ==
    ProgAlu \cup ProgInterrupt \cup ProgHalt \cup ProgOpcode \cup ProgExtended
        \cup ProgOther

InitCpu ==
    /\ cpu = CpuPowerUp("GB")
    /\ \E prog \in Programs :
          mmu = MmunitPowerUp(
                    WithProgram(CartridgePowerUp("RomOnly", 2 * BankSize, 0, 0,
                                                 RtcNow), prog),
                    "GB")
    /\ fatal = FALSE
    /\ ret = 0
    /\ op = [kind |-> "none", a |-> 0, v |-> 0]
    /\ steps = 0
    /\ cpu_rtc = RtcPowerUp
    /\ disk = Empty

Machine(c, m) ==
    [reg |-> c.reg, mem |-> m, halted |-> c.halted, ei |-> c.ei, panic |-> FALSE]

\* Cpu::next. op keeps the address and the byte at the program counter, the
\* processor as it was before the step, and the branch next() took: hi()
\* returned cycles ("dispatch"), the processor stayed halted ("stall"), or
\* ex() ran ("execute").
StepPath(h) ==
    IF h.v # 0 THEN "dispatch" ELSE IF h.s.halted THEN "stall" ELSE "execute"
\* link(path) is what the step leaves in op.link (the calls and dispatches
\* that have not returned yet, where a run keeps them)
CpuStepWith(max, link(_)) ==
    /\ ~fatal
    /\ steps < max
    /\ LET finish(r) ==
               IF r.s.panic
               THEN /\ fatal' = TRUE
                    /\ ret' = Panic
                    /\ UNCHANGED <<cpu, mmu>>
               ELSE /\ fatal' = FALSE
                    /\ ret' = r.v
                    /\ cpu' = [reg |-> r.s.reg, halted |-> r.s.halted,
                               ei |-> r.s.ei]
                    /\ mmu' = r.s.mem
       IN /\ \E r \in {next(Machine(cpu, mmu))} : finish(r)
          /\ \E path \in {StepPath(hi(Machine(cpu, mmu)))} :
                op' = [kind |-> "next", a |-> cpu.reg.program_counter,
                       v |-> Mmunit_get(mmu, cpu.reg.program_counter),
                       pre |-> cpu, path |-> path, link |-> link(path)]
    /\ steps' = steps + 1
    /\ UNCHANGED <<cpu_rtc, disk>>
CpuStep(max) == CpuStepWith(max, LAMBDA path: <<>>)
CpuNext == CpuStep(MaxCpuSteps)

\* Joypad::keydown(key): the front end reports a key press
Keys == {1, 128}
KeyPressWith(max, link) ==
    /\ ~fatal
    /\ steps < max
    /\ \E key \in Keys :
          /\ mmu' = [mmu EXCEPT !.joypad.matrix = BitAnd(@, Not8(key)),
                                !.intf = BitOr(@, Pow2(4))]
          /\ op' = [kind |-> "keydown", a |-> 0, v |-> key, link |-> link]
    /\ steps' = steps + 1
    /\ UNCHANGED <<cpu_rtc, disk>>
    /\ UNCHANGED <<cpu, fatal, ret>>

KeyPress(max) == KeyPressWith(max, <<>>)
KeyDown == KeyPress(MaxCpuSteps)
NextCpu == CpuNext \/ KeyDown
SpecCpu == InitCpu /\ [][NextCpu]_vars

\* ---- the two signed-byte additions to the stack pointer ----
MaxSpSteps == 3
SpOps == {232, 248}
\* LD SP,sp; ADD SP,e8 or LD HL,SP+e8; NOP
ProgSp ==
    {<<49, sp % 256, sp \div 256, code, e8, 0>> :
        sp \in {0, 15, 255, 4080, 65528, 65535},
        e8 \in {0, 1, 15, 16, 127, 128, 241, 255},
        code \in SpOps}

InitSp ==
    /\ cpu = CpuPowerUp("GB")
    /\ \E prog \in ProgSp :
          mmu = MmunitPowerUp(
                    WithProgram(CartridgePowerUp("RomOnly", 2 * BankSize, 0, 0,
                                                 RtcNow), prog),
                    "GB")
    /\ fatal = FALSE
    /\ ret = 0
    /\ op = [kind |-> "none", a |-> 0, v |-> 0]
    /\ steps = 0
    /\ cpu_rtc = RtcPowerUp
    /\ disk = Empty
SpNext == CpuStep(MaxSpSteps)
SpecSp == InitSp /\ [][SpNext]_vars

\* the step just taken executed one of the two opcodes
SpExecuted ==
    /\ op.kind = "next" /\ op.path = "execute" /\ ~fatal
    /\ op.v \in SpOps
\* the immediate byte of that step, as an unsigned byte
SpOperand == Mmunit_get(mmu, op.a + 1)

\* C22: for every SP and every signed immediate e8, 0xE8 and 0xF8 leave
\* HalfCarry set iff (SP & 0x0F) + (e8 & 0x0F) > 0x0F, Carry set iff
\* (SP & 0xFF) + (e8 & 0xFF) > 0xFF, Zero and Subtraction clear, and put
\* SP + sign-extended e8 (mod 2^16) in SP for 0xE8 and in HL for 0xF8.
C22_SpAddFlags ==
    SpExecuted =>
        LET a == op.pre.reg.stack_pointer
            e8 == SpOperand
            res == W16(a + AsI8(e8))
        IN /\ get_flag(cpu.reg, HalfCarryFlag)
                  <=> (BitAnd(a, 15) + BitAnd(e8, 15) > 15)
           /\ get_flag(cpu.reg, CarryFlag)
                  <=> (BitAnd(a, 255) + BitAnd(e8, 255) > 255)
           /\ ~get_flag(cpu.reg, ZeroFlag)
           /\ ~get_flag(cpu.reg, SubtractionFlag)
           /\ op.v = 232 => cpu.reg.stack_pointer = res
           /\ op.v = 248 => parse_hl(cpu.reg) = res /\ cpu.reg.stack_pointer = a

\* ---- the flags an instruction leaves alone ----
MaxFrameSteps == 5
IncDec8 == {4, 5, 12, 13, 20, 21, 28, 29, 36, 37, 44, 45, 52, 53, 60, 61}
AddHl == {9, 25, 41, 57}
BitOps == 64..127
SetResOps == 128..255
\* LD HL,0xC000; LD BC,(a, flags); PUSH BC; POP AF; then the instruction
ProgFrame ==
    {<<33, 0, 192, 1, flags, a, 197, 241, code, 0>> :
        flags \in {0, 16, 128, 240}, a \in {0, 15, 255},
        code \in IncDec8 \cup AddHl}
      \cup
    {<<33, 0, 192, 1, flags, a, 197, 241, 203, cbcode>> :
        flags \in {0, 16, 128, 240}, a \in {0, 15, 255},
        cbcode \in BitOps \cup SetResOps}

InitFrame ==
    /\ cpu = CpuPowerUp("GB")
    /\ \E prog \in ProgFrame :
          mmu = MmunitPowerUp(
                    WithProgram(CartridgePowerUp("RomOnly", 2 * BankSize, 0, 0,
                                                 RtcNow), prog),
                    "GB")
    /\ fatal = FALSE
    /\ ret = 0
    /\ op = [kind |-> "none", a |-> 0, v |-> 0]
    /\ steps = 0
    /\ cpu_rtc = RtcPowerUp
    /\ disk = Empty
FrameNext == CpuStep(MaxFrameSteps)
SpecFrame == InitFrame /\ [][FrameNext]_vars

\* the step just taken executed an instruction; its second byte
FrameExecuted == op.kind = "next" /\ op.path = "execute" /\ ~fatal
FrameOperand == Mmunit_get(mmu, op.a + 1)
SameFlag(flag) == get_flag(cpu.reg, flag) <=> get_flag(op.pre.reg, flag)

\* C34: 8-bit INC and DEC (register and (HL) forms) leave Carry as it was
\* for every operand, ADD HL,rr leaves Zero as it was, BIT, SET and RES
\* leave Carry as it was, and SET and RES change no flag at all.
C34_UntouchedFlags ==
    FrameExecuted =>
        /\ op.v \in IncDec8 => SameFlag(CarryFlag)
        /\ op.v \in AddHl => SameFlag(ZeroFlag)
        /\ (op.v = 203 /\ FrameOperand \in BitOps) => SameFlag(CarryFlag)
        /\ (op.v = 203 /\ FrameOperand \in SetResOps) =>
              cpu.reg.f_reg = op.pre.reg.f_reg
\* INC B of 0xFF with Carry set: Zero and HalfCarry are raised, Carry stays
C34_Witness ==
    /\ FrameExecuted /\ op.v = 4
    /\ op.pre.reg.b_reg = 255 /\ cpu.reg.b_reg = 0
    /\ get_flag(op.pre.reg, CarryFlag) /\ ~get_flag(op.pre.reg, ZeroFlag)
    /\ get_flag(cpu.reg, CarryFlag) /\ get_flag(cpu.reg, ZeroFlag)

\* ---- decimal arithmetic: LD A,a; ADD A,b; DAA on packed-BCD bytes ----
MaxBcdSteps == 3
Bcd == {16 * hi_digit + lo_digit : hi_digit \in 0..9, lo_digit \in 0..9}
ProgBcd == {<<62, a, 198, b, 39>> : a \in Bcd, b \in Bcd}

InitBcd ==
    /\ cpu = CpuPowerUp("GB")
    /\ \E prog \in ProgBcd :
          mmu = MmunitPowerUp(
                    WithProgram(CartridgePowerUp("RomOnly", 2 * BankSize, 0, 0,
                                                 RtcNow), prog),
                    "GB")
    /\ fatal = FALSE
    /\ ret = 0
    /\ op = [kind |-> "none", a |-> 0, v |-> 0]
    /\ steps = 0
    /\ cpu_rtc = RtcPowerUp
    /\ disk = Empty
BcdNext == CpuStep(MaxBcdSteps)
SpecBcd == InitBcd /\ [][BcdNext]_vars

\* the decimal value of a packed-BCD byte, and the byte of a value below 100
FromBcd(x) == (x \div 16) * 10 + (x % 16)
ToBcd(n) == (n \div 10) * 16 + (n % 10)

\* C11: for packed-BCD a and b, ADD A,b on A = a and then DAA leave A the
\* packed-BCD byte of (a + b) mod 100, Carry set exactly when a + b >= 100,
\* HalfCarry clear, Subtraction as ADD left it, Zero exactly when A is 0.
C11_DaaAfterAdd ==
    (op.kind = "next" /\ op.path = "execute" /\ op.v = 39 /\ op.a = 260) =>
        LET a == Mmunit_get(mmu, 257)
            b == Mmunit_get(mmu, 259)
            sum == FromBcd(a) + FromBcd(b)
        IN /\ ~fatal
           /\ op.pre.reg.a_reg = W8(a + b)
           /\ cpu.reg.a_reg = ToBcd(sum % 100)
           /\ get_flag(cpu.reg, CarryFlag) <=> sum >= 100
           /\ ~get_flag(cpu.reg, HalfCarryFlag)
           /\ get_flag(cpu.reg, SubtractionFlag)
                 <=> get_flag(op.pre.reg, SubtractionFlag)
           /\ get_flag(cpu.reg, ZeroFlag) <=> cpu.reg.a_reg = 0
           /\ ret = 4

\* 0x15 + 0x27 gave the raw byte 0x3C and DAA made it 0x42, Carry clear
C11_Witness ==
    /\ op.kind = "next" /\ op.v = 39 /\ op.a = 260 /\ ~fatal
    /\ Mmunit_get(mmu, 257) = 21 /\ Mmunit_get(mmu, 259) = 39
    /\ op.pre.reg.a_reg = 60
    /\ cpu.reg.a_reg = 66 /\ ~get_flag(cpu.reg, CarryFlag)

\* ---- loading an image ----
MaxLoadSteps == 1

\* The header 0x0104-0x014F of an image: the logo bytes, a title byte, the
\* type, ROM size and RAM size codes, and the checksum byte off by `delta`.
HeaderBytes(logo, title, type, size) ==
    [i \in 260..335 |->
        CASE i <= 307 -> logo[i - 259]
          [] i = 308 -> title
          [] i = 327 -> type
          [] i = 328 -> size
          [] OTHER -> 0]
RECURSIVE SumOver(_, _, _)
SumOver(h, i, v) ==
    IF i = 333 THEN v ELSE SumOver(h, i + 1, W8(W8(v - h[i]) - 1))
Image(logo, title, type, size, delta, len) ==
    [rom |-> [HeaderBytes(logo, title, type, size)
                 EXCEPT ![333] = W8(SumOver(HeaderBytes(logo, title, type, size),
                                            308, 0) + delta)],
     len |-> len]
\* the logo, the logo with one byte changed, and 48 equal bytes
Logos ==
    {NINTENDO_LOGO}
      \cup {[NINTENDO_LOGO EXCEPT ![k] = W8(@ + 1)] : k \in {1, 2, 3, 48}}
      \cup {[i \in 1..48 |-> b] : b \in {206, 237, 0}}
Images ==
    {Image(logo, title, type, size, delta, len) :
        logo \in Logos, title \in {0, 65}, type \in {0, 1, 25, 4},
        size \in {0, 1, 9}, delta \in {0, 1},
        len \in {335, 336, 32768, 65536, 65537}}

InitLoad ==
    /\ cpu = CpuPowerUp("GB")
    /\ mmu = [loaded |-> FALSE]
    /\ fatal = FALSE
    /\ ret = 0
    /\ op = [kind |-> "none", a |-> 0, v |-> 0]
    /\ steps = 0
    /\ cpu_rtc = RtcPowerUp
    /\ disk = Empty

\* MotherBoard::power_up(path): the cartridge is loaded, then Mmunit and
\* the processor are built around it
Load ==
    /\ ~fatal
    /\ steps < MaxLoadSteps
    /\ \E img \in Images :
          LET finish(r) ==
                 IF r.ok
                 THEN /\ fatal' = FALSE
                      /\ mmu' = MmunitPowerUp(r.c, "GB")
                 ELSE /\ fatal' = TRUE
                      /\ UNCHANGED mmu
          IN /\ finish(cart_power_up(img, RtcNow))
             /\ op' = [kind |-> "load", a |-> 0, v |-> 0, img |-> img]
    /\ cpu' = CpuPowerUp("GB")
    /\ cpu_rtc' = RtcPowerUp
    /\ ret' = 0
    /\ steps' = steps + 1
    /\ UNCHANGED disk
SpecLoad == InitLoad /\ [][Load]_vars

LogoMatches(img) == \A i \in 0..47 : img.rom[260 + i] = NINTENDO_LOGO[i + 1]
ChecksumMatches(img) == img.rom[333] = SumOver(img.rom, 308, 0)
Loadable(img) ==
    /\ img.rom[327] \in {0, 1, 25}
    /\ rom_size(img.rom[328]) # Panic
    /\ img.len >= 336 /\ img.len <= rom_size(img.rom[328])

\* C14: loading accepts an image of supported type and size codes and of a
\* length between 0x150 and the declared maximum exactly when the 48 bytes at
\* 0x0104-0x0133 equal the logo and the byte at 0x014D equals the checksum
\* of 0x0134-0x014C; every other image is fatal.
C14_LoadAcceptsExactlyValid ==
    op.kind = "load" =>
        (~fatal <=> (Loadable(op.img) /\ LogoMatches(op.img)
                       /\ ChecksumMatches(op.img)))

\* ---- conditional branches under every Zero / Carry state ----
MaxBranchSteps == 4
JrCc == {32, 40, 48, 56}
JpCc == {194, 202, 210, 218}
CallCc == {196, 204, 212, 220}
RetCc == {192, 200, 208, 216}
CondOps == JrCc \cup JpCc \cup CallCc \cup RetCc
\* LD BC,flags; PUSH BC; POP AF; the branch with operand bytes 5, 2
ProgBranch ==
    {<<1, flags, 0, 197, 241, code, 5, 2>> :
        flags \in {0, 16, 128, 144}, code \in CondOps}

InitBranch ==
    /\ cpu = CpuPowerUp("GB")
    /\ \E prog \in ProgBranch :
          mmu = MmunitPowerUp(
                    WithProgram(CartridgePowerUp("RomOnly", 2 * BankSize, 0, 0,
                                                 RtcNow), prog),
                    "GB")
    /\ fatal = FALSE
    /\ ret = 0
    /\ op = [kind |-> "none", a |-> 0, v |-> 0]
    /\ steps = 0
    /\ cpu_rtc = RtcPowerUp
    /\ disk = Empty
BranchNext == CpuStep(MaxBranchSteps)
SpecBranch == InitBranch /\ [][BranchNext]_vars

\* the opcode's own condition: NZ, Z, NC, C by bits 3-4 of the opcode
BranchHolds(r, code) ==
    CASE code \in {32, 194, 196, 192} -> BitAnd(r.f_reg, ZeroFlag) = 0
      [] code \in {40, 202, 204, 200} -> BitAnd(r.f_reg, ZeroFlag) # 0
      [] code \in {48, 210, 212, 208} -> BitAnd(r.f_reg, CarryFlag) = 0
      [] code \in {56, 218, 220, 216} -> BitAnd(r.f_reg, CarryFlag) # 0
BranchTarget(code) ==
    CASE code \in JrCc -> 261 + 2 + 5
      [] code \in JpCc \cup CallCc -> 2 * 256 + 5
      [] code \in RetCc -> 0
BranchExtra(code) == IF code \in JrCc \cup JpCc THEN 1 ELSE 3
BranchLength(code) ==
    CASE code \in JrCc -> 2 [] code \in JpCc \cup CallCc -> 3 [] code \in RetCc -> 1

\* C18: for every conditional branch opcode and every state of Zero and
\* Carry, the step costs the table cost plus the extra (1 for JR/JP, 3 for
\* CALL/RET) exactly when the opcode's own condition holds and PC goes to
\* the target, and the table cost alone when the branch is not taken.
C18_ExtraCyclesWhenTaken ==
    (op.kind = "next" /\ op.path = "execute" /\ op.a = 261
        /\ op.v \in CondOps) =>
        /\ ~fatal
        /\ IF BranchHolds(op.pre.reg, op.v)
           THEN /\ cpu.reg.program_counter = BranchTarget(op.v)
                /\ ret = 4 * (OP_CYCLES(op.v) + BranchExtra(op.v))
           ELSE /\ cpu.reg.program_counter = 261 + BranchLength(op.v)
                /\ ret = 4 * OP_CYCLES(op.v)

\* ---- the driver step: MotherBoard::next ----
MaxBoardSteps == 4

\* LD A,latch; LDH (0x4D),A; then HALT, STOP or NOP; then STOP or NOP
ProgSpeed ==
    {<<62, latch, 224, 77, third, fourth>> :
        latch \in {0, 1}, third \in {118, 16, 0}, fourth \in {16, 0}}
\* LD A,4; LDH (0xFF),A; LDH (0x07),A; LD A,1; LDH (0x4D),A; EI; STOP ...
\* with the vector 0x0050 reached through the timer interrupt
ProgSpeedIrq ==
    {<<62, 4, 224, 255, 62, if, 224, 15, 62, 1, 224, 77, 251, 0, 16>> :
        if \in {4, 0}}
BoardPrograms == Programs \cup ProgSpeed \cup ProgSpeedIrq

InitBoard ==
    /\ cpu = CpuPowerUp("GB")
    /\ \E prog \in BoardPrograms :
          mmu = MmunitPowerUp(
                    WithProgram(CartridgePowerUp("RomOnly", 2 * BankSize, 0, 0,
                                                 RtcNow), prog),
                    "GB")
    /\ fatal = FALSE
    /\ ret = 0
    /\ op = [kind |-> "none", a |-> 0, v |-> 0]
    /\ steps = 0
    /\ cpu_rtc = RtcPowerUp
    /\ disk = Empty

\* the pacing branch of RTC::next, before the CPU step; the sleep and
\* step_zero are wall-clock time
RTC_pace(k) ==
    IF k.step_cycles > STEP_CYCLES
    THEN [step_cycles |-> k.step_cycles - STEP_CYCLES, step_flip |-> TRUE]
    ELSE k

\* MotherBoard::next: the byte at PC is read first and switch_speed called
\* when it is 0x10; RTC::next steps the CPU; Mmunit::next(cycles) advances the
\* peripherals. [ok, cpu, mmu, rtc, v, time_cycles, gpu_cycles]
MotherBoard_fail == [ok |-> FALSE]
MotherBoard_next_periph_first(c, m, k) ==
    Bind(Mmunit_get(m, c.reg.program_counter), LAMBDA b:
      IF b = Panic THEN MotherBoard_fail
      ELSE
      Bind(Mmunit_next(IF b = 16 THEN switch_speed(m) ELSE m, 16), LAMBDA p:
        IF ~p.ok THEN MotherBoard_fail
        ELSE
        Bind(next(Machine(c, p.m)), LAMBDA r:
          IF r.s.panic THEN MotherBoard_fail
          ELSE [ok |-> TRUE,
                cpu |-> [reg |-> r.s.reg, halted |-> r.s.halted, ei |-> r.s.ei],
                mmu |-> r.s.mem,
                rtc |-> [RTC_pace(k) EXCEPT !.step_cycles = @ + r.v],
                v |-> r.v, time_cycles |-> p.time_cycles,
                gpu_cycles |-> p.v,
                raised |-> BitAnd(p.m.intf, Not8(m.intf))])))
MotherBoard_next(c, m, k) ==
    Bind(Mmunit_get(m, c.reg.program_counter), LAMBDA b:
      IF b = Panic THEN MotherBoard_fail
      ELSE
      Bind(next(Machine(c, IF b = 16 THEN switch_speed(m) ELSE m)), LAMBDA r:
        IF r.s.panic THEN MotherBoard_fail
        ELSE
        Bind(Mmunit_next(r.s.mem, r.v), LAMBDA p:
          IF ~p.ok THEN MotherBoard_fail
          ELSE [ok |-> TRUE,
                cpu |-> [reg |-> r.s.reg, halted |-> r.s.halted, ei |-> r.s.ei],
                mmu |-> p.m,
                rtc |-> [RTC_pace(k) EXCEPT !.step_cycles = @ + r.v],
                v |-> r.v, time_cycles |-> p.time_cycles,
                gpu_cycles |-> p.v,
                raised |-> BitAnd(p.m.intf, Not8(r.s.mem.intf))])))

MbStep(max) ==
    /\ ~fatal
    /\ steps < max
    /\ LET finish(r) ==
               IF ~r.ok
               THEN /\ fatal' = TRUE /\ ret' = Panic
                    /\ UNCHANGED <<cpu, mmu, cpu_rtc>>
                    /\ op' = [kind |-> "step", a |-> cpu.reg.program_counter,
                              v |-> 0, pre |-> cpu, path |-> "panic"]
               ELSE /\ fatal' = FALSE /\ ret' = r.v
                    /\ cpu' = r.cpu /\ mmu' = r.mmu /\ cpu_rtc' = r.rtc
                    /\ op' = [kind |-> "step", a |-> cpu.reg.program_counter,
                              v |-> Mmunit_get(mmu, cpu.reg.program_counter),
                              pre |-> cpu,
                              path |-> StepPath(hi(Machine(cpu, mmu))),
                              time_cycles |-> r.time_cycles,
                              gpu_cycles |-> r.gpu_cycles,
                              raised |-> r.raised]
       IN finish(MotherBoard_next(cpu, mmu, cpu_rtc))
    /\ steps' = steps + 1
    /\ UNCHANGED disk
BoardNext == MbStep(MaxBoardSteps)
SpecBoard == InitBoard /\ [][BoardNext]_vars

\* ---- peripherals raising interrupts under the driver ----
MaxIrqSteps == 8
\* DI or NOP; LD A,ie; LDH (0xFF),A; LD A,5; LDH (0x07),A; LD A,tima;
\* LDH (0x05),A: the timer, at one tick in 16 cycles, overflows TIMA
ProgTimerIrq ==
    {<<first, 62, ie, 224, 255, 62, 5, 224, 7, 62, tima, 224, 5, 0, 0>> :
        first \in {243, 0}, ie \in {4, 0, 31}, tima \in {255, 254, 16}}
\* LD A,0x20; LDH (0x41),A; LD A,2; LDH (0xFF),A; LD A,lcdc; LDH (0x40),A;
\* LD A,0x91; LDH (0x40),A: the LCD switched off and on enters mode 2
ProgLcdIrq ==
    {<<62, stat, 224, 65, 62, 2, 224, 255, 62, lcdc, 224, 64, 62, 145, 224, 64,
       0>> : stat \in {32, 0}, lcdc \in {17, 145}}
IrqPrograms == ProgTimerIrq \cup ProgLcdIrq \cup ProgHalt

InitIrq ==
    /\ cpu = CpuPowerUp("GB")
    /\ \E prog \in IrqPrograms :
          mmu = MmunitPowerUp(
                    WithProgram(CartridgePowerUp("RomOnly", 2 * BankSize, 0, 0,
                                                 RtcNow), prog),
                    "GB")
    /\ fatal = FALSE
    /\ ret = 0
    /\ op = [kind |-> "none", a |-> 0, v |-> 0]
    /\ steps = 0
    /\ cpu_rtc = RtcPowerUp
    /\ disk = Empty
IrqStep == MbStep(MaxIrqSteps)
IrqKey == KeyPress(MaxIrqSteps)
NextIrq == IrqStep \/ IrqKey
SpecIrq == InitIrq /\ [][NextIrq]_vars

\* ---- general-purpose VRAM DMA under the driver ----
MaxDmaSteps == 10
\* LD A,sh; LDH (0x51),A; LD A,dh; LDH (0x53),A; LD A,dl; LDH (0x54),A;
\* LD A,v; LDH (0x55),A; NOP; NOP
ProgDma ==
    {<<62, sh, 224, 81, 62, d[1], 224, 83, 62, d[2], 224, 84, 62, v, 224, 85,
       0, 0>> :
        sh \in {0, 1},
        d \in {<<0, 0>>, <<23, 16>>, <<31, 0>>, <<31, 240>>},
        v \in {0, 1, 3, 16, 129}}

InitDma ==
    /\ cpu = CpuPowerUp("GB")
    /\ \E prog \in ProgDma :
          mmu = MmunitPowerUp(
                    WithProgram(CartridgePowerUp("RomOnly", 2 * BankSize, 0, 0,
                                                 RtcNow), prog),
                    "GB")
    /\ fatal = FALSE
    /\ ret = 0
    /\ op = [kind |-> "none", a |-> 0, v |-> 0]
    /\ steps = 0
    /\ cpu_rtc = RtcPowerUp
    /\ disk = Empty
DmaStep == MbStep(MaxDmaSteps)
SpecDma == InitDma /\ [][DmaStep]_vars

\* the instruction about to run is LDH (0x55),A with bit 7 of A clear, and
\* no H-blank transfer is under way: it starts a general-purpose transfer
StartsGdma ==
    /\ Mmunit_get(mmu, cpu.reg.program_counter) = 224
    /\ Mmunit_get(mmu, W16(cpu.reg.program_counter + 1)) = 85
    /\ cpu.reg.a_reg < 128
    /\ ~(mmu.hdma.active /\ mmu.hdma.mode = "Hdma")
GdmaLength == (BitAnd(cpu.reg.a_reg, 127) + 1) * 16
VramSize == 8192

\* C30: when a general-purpose transfer is started by writing v with bit 7
\* clear to 0xFF55, the bus advance of that step copies exactly
\* ((v & 0x7F) + 1) * 16 bytes from source to destination, adds
\* ((v & 0x7F) + 1) * 8 cycles to the peripheral cycles of the step and
\* leaves the transfer inactive, 0xFF55 reading 0xFF; the advances after it
\* copy nothing.
C30_GdmaOneShot ==
    [][IF StartsGdma
       THEN LET at == mmu.hdma.dst - 32768
                vram == mmu'.gpu.ram
            IN /\ ~fatal'
               /\ \A i \in 0..(VramSize - 1) :
                     At(vram, i) =
                        IF i >= at /\ i < at + GdmaLength
                        THEN Mmunit_get(mmu, mmu.hdma.src + (i - at))
                        ELSE At(mmu.gpu.ram, i)
               /\ op'.gpu_cycles = ret' \div mmu.speed + GdmaLength \div 2
               /\ ~mmu'.hdma.active
               /\ Mmunit_get(mmu', 65365) = 255
       ELSE (~fatal' /\ ~mmu.hdma.active) => mmu'.gpu.ram = mmu.gpu.ram]_vars

\* the latch and the mode as the CPU step alone leaves them
ShiftAfterCpu(c, m) == next(Machine(c, m)).s.mem.shift
ExecutesStop == op'.path = "execute" /\ op'.v = 16

\* C12: the speed mode changes only in a driver step in which the CPU
\* executes STOP (0x10) while the switch latch is set, and that step clears
\* the latch; a step in which the CPU does not execute STOP (interrupt
\* dispatch, halted stall, any other opcode) leaves the mode alone and
\* leaves the latch as the instruction itself left it (only a store to
\* 0xFF4D sets it).
C12_SpeedOnlyOnStop ==
    [][(op'.kind = "step" /\ ~fatal') =>
          /\ (mmu'.speed # mmu.speed) =>
                (ExecutesStop /\ mmu.shift /\ ~mmu'.shift)
          /\ (ExecutesStop /\ mmu.shift) =>
                (mmu'.speed # mmu.speed /\ ~mmu'.shift)
          /\ ~ExecutesStop =>
                (mmu'.speed = mmu.speed
                   /\ mmu'.shift = ShiftAfterCpu(cpu, mmu))]_vars

\* C33: after a CPU step the timer, the GPU and the APU receive the same
\* converted count, cpu-cycles / 2 plus the DMA cycles in double-speed mode
\* and cpu-cycles plus the DMA cycles in normal mode, while the count
\* returned to the driver is the CPU's own.
C33_SameConvertedCount ==
    [][(op'.kind = "step" /\ ~fatal') =>
          LET b == Mmunit_get(mmu, cpu.reg.program_counter)
              r == next(Machine(cpu, IF b = 16 THEN switch_speed(mmu) ELSE mmu))
              dma == run_dma(r.s.mem).v
          IN /\ ret' = r.v
             /\ op'.gpu_cycles = r.v \div mmu'.speed + dma
             /\ op'.time_cycles = op'.gpu_cycles]_vars

\* ---- the cartridge seen through the bus ----
MaxCartSteps == 3
CartAddrs == {0, 256, 8192, 8448, 12288, 16384, 24576, 32767,
              40960, 41471, 43008, 49151}
CartVals == {0, 1, 5, 10, 32}

InitCart ==
    /\ cpu = CpuPowerUp("GB")
    /\ mmu \in {MmunitPowerUp(c, "GB") : c \in CartMenu}
    /\ fatal = FALSE
    /\ ret = 0
    /\ op = [kind |-> "none", a |-> 0, v |-> 0]
    /\ steps = 0
    /\ cpu_rtc = RtcPowerUp
    /\ disk = Empty

\* Mmunit::get(a), called from outside the CPU
BusRead(a, max) ==
    /\ ~fatal
    /\ steps < max
    /\ LET r == Mmunit_get(mmu, a)
       IN /\ ret' = r
          /\ fatal' = (r = Panic)
    /\ op' = [kind |-> "get", a |-> a, v |-> 0]
    /\ steps' = steps + 1
    /\ UNCHANGED <<cpu_rtc, disk>>
    /\ UNCHANGED <<cpu, mmu>>

\* Mmunit::set(a, v)
BusWrite(a, v, max) ==
    /\ ~fatal
    /\ steps < max
    /\ LET r == Mmunit_set(mmu, a, v)
       IN /\ mmu' = IF r.ok THEN r.m ELSE mmu
          /\ fatal' = ~r.ok
    /\ ret' = 0
    /\ op' = [kind |-> "set", a |-> a, v |-> v]
    /\ steps' = steps + 1
    /\ UNCHANGED <<cpu_rtc, disk>>
    /\ UNCHANGED cpu

CartRead == \E a \in CartAddrs : BusRead(a, MaxCartSteps)
CartWrite == \E a \in CartAddrs, v \in CartVals : BusWrite(a, v, MaxCartSteps)
NextCart == CartRead \/ CartWrite
SpecCart == InitCart /\ [][NextCart]_vars

\* The ROM bank a read of 0x4000-0x7FFF goes to: Mbc1::rom_bank(), or the
\* rom_bank field of Mbc2, Mbc3 and Mbc5.
EffectiveRomBank(c) ==
    IF c.kind = "Mbc1" THEN Mbc1_rom_bank(c) ELSE c.rom_bank

IsBanked(c) == c.kind \in {"Mbc1", "Mbc2", "Mbc3", "Mbc5"}
IsRomBankReg(c, a) ==
    CASE c.kind = "Mbc2" -> InRange(a, 8192, 16383) /\ BitAnd(a, 256) # 0
      [] c.kind = "Mbc5" -> InRange(a, 8192, 12287)
      [] OTHER -> InRange(a, 8192, 16383)
BankSelectBits(c, v) ==
    CASE c.kind = "Mbc1" -> BitAnd(v, 31)
      [] c.kind = "Mbc2" -> BitAnd(v, 15)
      [] c.kind = "Mbc3" -> BitAnd(v, 127)
      [] OTHER -> v

\* C4: on MBC1, MBC2, MBC3 and MBC5 a write to the ROM-bank register whose
\* bank-select bits are all zero selects bank 1, and the effective ROM bank
\* is never 0.
C4_RomBankNeverZero ==
    IsBanked(mmu.cartridge) =>
        /\ EffectiveRomBank(mmu.cartridge) # 0
        /\ (op.kind = "set" /\ IsRomBankReg(mmu.cartridge, op.a)
              /\ BankSelectBits(mmu.cartridge, op.v) = 0)
           => EffectiveRomBank(mmu.cartridge) = 1

\* C5: the effective ROM bank is reduced modulo the number of banks in the
\* image, so a read of 0x4000-0x7FFF never fails.
C5_BankedReadNeverFails ==
    (op.kind = "get" /\ InRange(op.a, 16384, 32767)) =>
        /\ ret # Panic
        /\ IsBanked(mmu.cartridge) =>
              ret = RomImage(mmu.cartridge,
                             (EffectiveRomBank(mmu.cartridge)
                                % (mmu.cartridge.rom_len \div BankSize)) * BankSize
                             + op.a - 16384)

\* C6: on an MBC1 cartridge with RAM, once 0x0A was written to 0x0000 a byte
\* written to any address of 0xA000-0xBFFF is stored and reads back; after
\* 0x00 was written to 0x0000 reads give 0 and writes change nothing.
C6_Mbc1RamGate ==
    LET c == mmu.cartridge IN
    (c.kind = "Mbc1" /\ c.ram_len > 0) =>
        /\ (op.kind = "set" /\ op.a = 0) => (c.ram_enable <=> op.v = 10)
        /\ InRange(op.a, 40960, 49151) =>
              IF c.ram_enable
              THEN /\ ~fatal
                   /\ op.kind = "set" => Mmunit_get(mmu, op.a) = op.v
              ELSE /\ ~fatal
                   /\ op.kind = "get" => ret = 0

\* C23: on MBC1, MBC2, MBC3 and MBC5, in every bank state, a read of a in
\* 0x4000-0x7FFF returns the ROM byte at bank * 0x4000 + (a - 0x4000) for the
\* effective ROM bank (where the image has that byte), and a read of a in
\* 0x0000-0x3FFF returns ROM byte a whatever the bank state.
C23_BankedReadOffset ==
    LET c == mmu.cartridge
        offset == EffectiveRomBank(c) * BankSize + (op.a - 16384)
    IN (op.kind = "get" /\ IsBanked(c)) =>
          /\ (InRange(op.a, 16384, 32767) /\ offset < c.rom_len) =>
                ret = RomImage(c, offset)
          /\ InRange(op.a, 0, 16383) => ret = RomImage(c, op.a)

\* C24: on MBC1 a write of v to 0x4000-0x5FFF stores v & 3 as the two upper
\* bank bits and leaves the low five bits alone, and a write of 0 or 1 to
\* 0x6000-0x7FFF selects ROM or RAM mode; in ROM mode the effective ROM bank
\* is (upper << 5) | low5 and the RAM bank is 0, in RAM mode the effective
\* ROM bank is low5 and the RAM bank is the upper bits.
C24_Mbc1UpperBitsAndMode ==
    [][(op'.kind = "set" /\ mmu.cartridge.kind = "Mbc1" /\ ~fatal') =>
          LET c == mmu.cartridge
              d == mmu'.cartridge
              low5 == BitAnd(d.bank, 31)
              upper == Shr(BitAnd(d.bank, 96), 5)
          IN /\ InRange(op'.a, 16384, 24575) =>
                   /\ upper = BitAnd(op'.v, 3)
                   /\ low5 = BitAnd(c.bank, 31)
             /\ (InRange(op'.a, 24576, 32767) /\ op'.v \in {0, 1}) =>
                   d.bank_mode = (IF op'.v = 0 THEN "Rom" ELSE "Ram")
             /\ d.bank_mode = "Rom" =>
                   /\ Mbc1_rom_bank(d) = BitOr(Shl8(upper, 5), low5)
                   /\ Mbc1_ram_bank(d) = 0
             /\ d.bank_mode = "Ram" =>
                   /\ Mbc1_rom_bank(d) = low5
                   /\ Mbc1_ram_bank(d) = upper]_vars

\* The addresses whose write sets the RAM-enable latch: 0x0000-0x1FFF, on
\* Mbc2 only those with address bit 8 clear
IsRamEnableReg(c, a) ==
    InRange(a, 0, 8191) /\ (c.kind = "Mbc2" => BitAnd(a, 256) = 0)

\* C25: on MBC1, MBC3 and MBC5 a write of v to any address of 0x0000-0x1FFF,
\* and on MBC2 to any such address with bit 8 clear, sets the RAM-enable
\* latch to ((v & 0x0F) = 0x0A); no other write changes the latch.
C25_RamEnableLatch ==
    [][(op'.kind = "set" /\ IsBanked(mmu.cartridge) /\ ~fatal') =>
          IF IsRamEnableReg(mmu.cartridge, op'.a)
          THEN mmu'.cartridge.ram_enable <=> (BitAnd(op'.v, 15) = 10)
          ELSE mmu'.cartridge.ram_enable = mmu.cartridge.ram_enable]_vars
\* an Mbc2 whose latch was set keeps it over a write of 0 to 0x0100
C25_Witness ==
    /\ mmu.cartridge.kind = "Mbc2" /\ ~fatal
    /\ op.kind = "set" /\ op.a = 256 /\ op.v = 0
    /\ mmu.cartridge.ram_enable
\* C25 as stated: every address of 0x0000-0x1FFF sets the latch on every
\* banked variant.
C25_AnyLowAddress ==
    [][(op'.kind = "set" /\ IsBanked(mmu.cartridge) /\ ~fatal') =>
          IF InRange(op'.a, 0, 8191)
          THEN mmu'.cartridge.ram_enable <=> (BitAnd(op'.v, 15) = 10)
          ELSE mmu'.cartridge.ram_enable = mmu.cartridge.ram_enable]_vars

\* C26: no bus write of any byte to an address of the cartridge windows
\* 0x0000-0x7FFF and 0xA000-0xBFFF is fatal, for any variant in any state.
C26_CartWriteNeverFatal ==
    (op.kind = "set"
       /\ (InRange(op.a, 0, 32767) \/ InRange(op.a, 40960, 49151))) => ~fatal

\* C27: on an MBC3 with RAM enabled, once a RAM-bank select of 4 or more
\* was written to 0x4000-0x5FFF, reads and writes of 0xA000-0xBFFF reach a
\* clock register, not cartridge RAM, and complete without failure; after
\* a select of 0..3 they reach the RAM bank of that index.
C27_Mbc3ClockSelect ==
    LET c == mmu.cartridge
        i == c.ram_bank * 8192 + op.a - 40960
    IN (c.kind = "Mbc3" /\ c.ram_enable /\ op.kind \in {"get", "set"}
          /\ InRange(op.a, 40960, 49151)) =>
          IF c.ram_bank >= 4
          THEN /\ ~fatal
               /\ op.kind = "get" => ret = RTC_get(c.rtc, c.ram_bank)
               /\ op.kind = "set" => RTC_get(c.rtc, c.ram_bank) = op.v
          ELSE i < c.ram_len =>
                  /\ ~fatal
                  /\ op.kind = "get" => ret = At(c.ram, i)
                  /\ op.kind = "set" => At(c.ram, i) = op.v

\* ---- the clock of the MBC3 ----
MaxClockSteps == 4
\* the second at which the cartridge was built, and seconds elapsed since
ClockBase == 1000
Elapsed == {0, 59, 60, 3725, 86400 + 7384, 256 * 86400 + 61, 512 * 86400,
            600 * 86400 + 3600}
ClockPasses == {1, 60, 256 * 86400}
\* enable, select the high day register, write it
ClockRegWrites == {<<0, 10>>, <<16384, 12>>, <<40960, 1>>, <<40960, 0>>}

InitClock ==
    /\ cpu = CpuPowerUp("GB")
    /\ \E d \in Elapsed :
          mmu = MmunitPowerUp(CartridgePowerUp("Mbc3", 2 * BankSize, 32768,
                                               ClockBase, ClockBase + d), "GB")
    /\ fatal = FALSE
    /\ ret = 0
    /\ op = [kind |-> "none", a |-> 0, v |-> 0]
    /\ steps = 0
    /\ cpu_rtc = RtcPowerUp
    /\ disk = Empty

\* a write to 0x6000-0x7FFF: RTC::tic when bit 0 of the value is set
ClockLatch == \E v \in {0, 1} : BusWrite(24576, v, MaxClockSteps)
ClockReg == \E w \in ClockRegWrites : BusWrite(w[1], w[2], MaxClockSteps)
\* SystemTime::now() moves on between two accesses
ClockPass ==
    /\ ~fatal
    /\ steps < MaxClockSteps
    /\ \E delta \in ClockPasses :
          /\ mmu' = [mmu EXCEPT !.cartridge.now = @ + delta]
          /\ op' = [kind |-> "pass", a |-> 0, v |-> delta]
    /\ steps' = steps + 1
    /\ UNCHANGED <<cpu, fatal, ret, cpu_rtc, disk>>
NextClock == ClockLatch \/ ClockReg \/ ClockPass
SpecClock == InitClock /\ [][NextClock]_vars

\* C28: after tic with d = now - zero seconds elapsed the fields are
\* seconds = d mod 60, minutes = (d div 60) mod 60, hours = (d div 3600)
\* mod 24, day low byte = days mod 256 and bit 0 of the high register =
\* (days div 256) mod 2 for days = d div 86400, and bit 7 of the high
\* register is set iff days >= 512.
C28_TicFields ==
    [][(op'.kind = "set" /\ InRange(op'.a, 24576, 32767)
          /\ BitAnd(op'.v, 1) # 0 /\ ~fatal') =>
          LET d == mmu.cartridge.now - mmu.cartridge.rtc.zero
              days == d \div 86400
              r == mmu'.cartridge.rtc
          IN /\ r.second = d % 60
             /\ r.minute = (d \div 60) % 60
             /\ r.hour = (d \div 3600) % 24
             /\ r.dl = days % 256
             /\ BitAnd(r.dh, 1) = (days \div 256) % 2
             /\ (BitAnd(r.dh, 128) # 0) <=> (days >= 512)]_vars

\* ---- H-blank VRAM DMA: register writes, then bus advances ----
MaxHdmaSteps == 36
\* the program sets the transfer up in its first accesses
HdmaSetupSteps == 3
\* the cycles of a CPU step handed to Mmunit::next
AdvanceCycles == {24}
\* source low byte, destination high and low byte, start with length 0 or 1
HdmaSetupWrites ==
    {<<65362, 64>>, <<65363, 31>>, <<65364, 240>>, <<65365, 128>>,
     <<65365, 129>>}

InitHdma ==
    /\ cpu = CpuPowerUp("GB")
    /\ mmu = MmunitPowerUp(CartridgePowerUp("RomOnly", 2 * BankSize, 0, 0,
                                            RtcNow), "GB")
    /\ fatal = FALSE
    /\ ret = 0
    /\ op = [kind |-> "none", a |-> 0, v |-> 0]
    /\ steps = 0
    /\ cpu_rtc = RtcPowerUp
    /\ disk = Empty

HdmaSetup ==
    /\ steps < HdmaSetupSteps
    /\ \E w \in HdmaSetupWrites : BusWrite(w[1], w[2], MaxHdmaSteps)
\* Mmunit::next(cycles)
BusAdvance(cycles, max) ==
    /\ ~fatal
    /\ steps < max
    /\ \E r \in {Mmunit_next(mmu, cycles)} :
          /\ fatal' = ~r.ok
          /\ mmu' = IF r.ok THEN r.m ELSE mmu
          /\ ret' = IF r.ok THEN r.v ELSE Panic
    /\ op' = [kind |-> "advance", a |-> 0, v |-> cycles]
    /\ steps' = steps + 1
    /\ UNCHANGED <<cpu, cpu_rtc, disk>>
HdmaAdvance == \E cycles \in AdvanceCycles : BusAdvance(cycles, MaxHdmaSteps)
NextHdma == HdmaSetup \/ HdmaAdvance
SpecHdma == InitHdma /\ [][NextHdma]_vars /\ WF_vars(HdmaAdvance)

HblankActive(m) == m.hdma.active /\ m.hdma.mode = "Hdma"
\* VRAM after one 16-byte chunk of the transfer of m
VramAfterChunk(m, i) ==
    LET at == m.hdma.dst - 32768
    IN IF i >= at /\ i < at + 16 THEN Mmunit_get(m, m.hdma.src + (i - at))
       ELSE At(m.gpu.ram, i)

\* C31: an H-blank transfer copies exactly 16 bytes and charges 8 cycles
\* on each bus advance at which the GPU reports H-blank, copies nothing and
\* charges nothing on every other advance, and becomes inactive exactly
\* after the chunk at which the remaining-length counter wraps from 0 to
\* 0x7F, the (L+1)-th; while advances go on the transfer completes.
C31_HblankChunks ==
    /\ [][(op'.kind = "advance" /\ HblankActive(mmu)) =>
             /\ ~fatal'
             /\ IF mmu.gpu.h_blank
                THEN /\ \A i \in 0..(VramSize - 1) :
                           At(mmu'.gpu.ram, i) = VramAfterChunk(mmu, i)
                     /\ ret' = op'.v \div mmu.speed + 8
                     /\ mmu'.hdma.remain =
                           (IF mmu.hdma.remain = 0 THEN 127
                            ELSE mmu.hdma.remain - 1)
                     /\ mmu'.hdma.active <=> (mmu.hdma.remain # 0)
                ELSE /\ mmu'.gpu.ram = mmu.gpu.ram
                     /\ ret' = op'.v \div mmu.speed
                     /\ mmu'.hdma = mmu.hdma]_vars
    /\ (HblankActive(mmu) ~> ~mmu.hdma.active)

\* C32: in every reachable state, after any writes to 0xFF51-0xFF55 and any
\* number of chunks, the transfer destination lies inside the video-RAM
\* window 0x8000-0x9FFF and the low nibbles of source and destination are 0.
C32_DmaAddressesInVram ==
    /\ InRange(mmu.hdma.dst, 32768, 40959)
    /\ mmu.hdma.dst % 16 = 0
    /\ mmu.hdma.src % 16 = 0

\* ---- the transfer control register ----

\* The bus alone: writes of 0xFF55 (start a general transfer of one or two
\* blocks, start an H-blank transfer of 3 or 128, or ask to stop), reads of
\* 0xFF55, and advances of 252 cycles, which take the LCD into an H-blank
\* every other time.
MaxCtlSteps == 6
CtlVals == {0, 1, 130, 255}
CtlCycles == {252}
CtlWrite == \E v \in CtlVals : BusWrite(65365, v, MaxCtlSteps)
CtlRead == BusRead(65365, MaxCtlSteps)
CtlAdvance == \E cycles \in CtlCycles : BusAdvance(cycles, MaxCtlSteps)
NextCtl == CtlWrite \/ CtlRead \/ CtlAdvance
SpecCtl == InitHdma /\ [][NextCtl]_vars

\* C39: a write of 0xFF55 while an H-blank transfer is active only clears
\* `active` when bit 7 of the value is clear, and changes nothing when it is
\* set; a write in any other state sets active, remain = v & 0x7F and the
\* mode bit 7 names, and leaves the addresses alone; a read of 0xFF55 returns
\* remain, with bit 7 set exactly when no transfer is active.
C39_ControlRegister ==
    [][/\ (op'.kind = "set" /\ op'.a = 65365) =>
             LET h == mmu.hdma
                 v == op'.v
             IN /\ ~fatal'
                /\ mmu' = [mmu EXCEPT !.hdma = mmu'.hdma]
                /\ mmu'.hdma =
                      IF HblankActive(mmu)
                      THEN IF v < 128 THEN [h EXCEPT !.active = FALSE] ELSE h
                      ELSE [h EXCEPT !.active = TRUE, !.remain = v % 128,
                                     !.mode = IF v >= 128 THEN "Hdma"
                                              ELSE "Gdma"]
       /\ (op'.kind = "get" /\ op'.a = 65365) =>
             ret' = mmu.hdma.remain + (IF mmu.hdma.active THEN 0 ELSE 128)]_vars

\* an H-blank transfer of three blocks had copied one when a write of 0x00
\* stopped it: two remain, the mode and the addresses are as the transfer
\* left them, and the register reads 0x81
C39_Witness ==
    /\ op.kind = "set" /\ op.a = 65365 /\ op.v = 0 /\ ~fatal
    /\ ~mmu.hdma.active /\ mmu.hdma.mode = "Hdma" /\ mmu.hdma.remain = 1
    /\ mmu.hdma.dst = 32784 /\ mmu.hdma.src = 16
    /\ Mmunit_get(mmu, 65365) = 129

\* ---- the work-RAM bank selector ----
MaxBankSteps == 3
BankVals == {0, 1, 2, 7, 8, 9, 248, 255}
BankAddrs == {49152, 53248, 57343, 65392}
BankBytes == {0, 170}

InitBank ==
    /\ cpu = CpuPowerUp("GB")
    /\ mmu = MmunitPowerUp(CartridgePowerUp("RomOnly", 2 * BankSize, 0, 0, RtcNow),
                           "GB")
    /\ fatal = FALSE
    /\ ret = 0
    /\ op = [kind |-> "none", a |-> 0, v |-> 0]
    /\ steps = 0
    /\ cpu_rtc = RtcPowerUp
    /\ disk = Empty

BankSelect == \E v \in BankVals : BusWrite(65392, v, MaxBankSteps)
BankRead == \E a \in BankAddrs : BusRead(a, MaxBankSteps)
BankWrite ==
    \E a \in BankAddrs \ {65392}, v \in BankBytes : BusWrite(a, v, MaxBankSteps)
NextBank == BankSelect \/ BankRead \/ BankWrite
SpecBank == InitBank /\ [][NextBank]_vars

\* C17: the work-RAM bank selector is in 1..7 in every reachable state; a
\* write to 0xFF70 stores the low three bits of the value, 1 when they are
\* 0; a read of 0xFF70 returns the selector; an access to 0xD000-0xDFFF
\* never lands in bank 0 (the first 0x1000 bytes of work RAM).
C17_WramBankOneToSeven ==
    /\ mmu.wram_bank \in 1..7
    /\ (op.kind = "set" /\ op.a = 65392) =>
          mmu.wram_bank = (IF op.v % 8 = 0 THEN 1 ELSE op.v % 8)
    /\ (op.kind = "get" /\ op.a = 65392) => ret = mmu.wram_bank
    /\ \A off \in {0, 4095} : WramBankIndex(mmu, off) \in 4096..32767
    /\ (op.kind = "set" /\ InRange(op.a, 53248, 57343)) =>
          /\ Mmunit_get(mmu, op.a) = op.v
          /\ op.v # 0 => \E i \in DOMAIN mmu.wram : i >= 4096 /\ mmu.wram[i] = op.v
C17_Witness ==
    /\ op.kind = "set" /\ op.a = 65392 /\ op.v = 248
    /\ mmu.wram_bank = 1 /\ ~fatal

\* ---- OAM DMA: a write to 0xFF46 ----
MaxOamSteps == 2
OamVals == {0, 64, 128, 160, 192, 208, 241}
OamFillAddrs == {32768, 49152, 49153, 53248}
OamFillVals == {5, 9}

InitOam ==
    /\ cpu = CpuPowerUp("GB")
    /\ mmu \in {MmunitPowerUp(c, "GB") : c \in CartMenu}
    /\ fatal = FALSE
    /\ ret = 0
    /\ op = [kind |-> "none", a |-> 0, v |-> 0]
    /\ steps = 0
    /\ cpu_rtc = RtcPowerUp
    /\ disk = Empty

OamFill ==
    \E a \in OamFillAddrs, v \in OamFillVals : BusWrite(a, v, MaxOamSteps)
OamStart == \E v \in OamVals : BusWrite(65350, v, MaxOamSteps)
NextOam == OamFill \/ OamStart
SpecOam == InitOam /\ [][NextOam]_vars

\* C16: a write of v <= 0xF1 to 0xFF46 completes within the write; after it
\* the OAM byte at 0xFE00 + i is the byte a read of (v << 8) + i returned
\* before it, for every i in 0..159, and nothing outside OAM has changed.
C16_OamDmaCopies ==
    [][(op'.kind = "set" /\ op'.a = 65350 /\ op'.v <= 241) =>
          /\ ~fatal'
          /\ \A i \in 0..159 :
                Mmunit_get(mmu', 65024 + i) = Mmunit_get(mmu, op'.v * 256 + i)
          /\ [mmu' EXCEPT !.gpu.oam = mmu.gpu.oam] = mmu]_vars

\* ---- saving on exit ----
MaxSaveSteps == 3
SaveAddrs == {0, 40960, 40961}
SaveVals == {10, 0, 7}
\* <<variant, RAM length, save path, clock path, clock base>>
SaveShapes ==
    {<<"Mbc3", 32768, "game.sav", "game.rtc", 258>>,
     <<"Mbc3", 32768, "game.sav", "game.rtc", RtcNow>>,
     <<"Mbc3", 0, "game.sav", "game.rtc", 1>>,
     <<"Mbc3", 32768, "game.sav", "", 258>>,
     <<"Mbc3", 32768, "", "", 258>>,
     <<"Mbc1", 8192, "game.sav", "", 0>>,
     <<"Mbc1", 8192, "", "", 0>>,
     <<"Mbc2", 512, "game.sav", "", 0>>,
     <<"Mbc5", 8192, "", "", 0>>,
     <<"RomOnly", 0, "", "", 0>>}
SaveCart(k) ==
    [CartridgePowerUp(k[1], 4 * BankSize, k[2], k[5], RtcNow)
        EXCEPT !.sav_path = k[3], !.rtc.sav_path = k[4]]

InitSave ==
    /\ cpu = CpuPowerUp("GB")
    /\ mmu \in {MmunitPowerUp(SaveCart(k), "GB") : k \in SaveShapes}
    /\ fatal = FALSE
    /\ ret = 0
    /\ op = [kind |-> "none", a |-> 0, v |-> 0]
    /\ steps = 0
    /\ cpu_rtc = RtcPowerUp
    /\ disk = Empty

\* main: motherboard.mmu.borrow_mut().cartridge.sav()
Save ==
    /\ ~fatal
    /\ steps < MaxSaveSteps
    /\ \E io \in IoOutcomes :
          LET r == Cartridge_sav(mmu.cartridge, disk, io)
          IN /\ disk' = r.d
             /\ fatal' = ~r.ok
             /\ op' = [kind |-> "sav", a |-> 0, v |-> 0, io |-> io]
    /\ steps' = steps + 1
    /\ UNCHANGED <<cpu, mmu, ret, cpu_rtc>>
SaveWrite == \E a \in SaveAddrs, v \in SaveVals : BusWrite(a, v, MaxSaveSteps)
NextSave == SaveWrite \/ Save
SpecSave == InitSave /\ [][NextSave]_vars

\* C15: sav() on the MBC3 cartridge with a clock and both paths set writes
\* the RAM bytes to the save file and the clock's base timestamp, as 8
\* big-endian bytes, to the clock file; sav() with no path set writes
\* nothing.
C15_SaveWritesRamAndClock ==
    (op.kind = "sav" /\ ~fatal) =>
        LET c == mmu.cartridge IN
        /\ (c.kind = "Mbc3" /\ c.sav_path # "" /\ c.rtc.sav_path # "") =>
              /\ DOMAIN disk = {c.sav_path, c.rtc.sav_path}
              /\ disk[c.sav_path] = RamBytes(c)
              /\ disk[c.rtc.sav_path] = to_be_bytes(c.rtc.zero)
        /\ (c.sav_path = "" /\ c.rtc.sav_path = "") => DOMAIN disk = {}

\* the declared RAM sizes of header byte 0x0149, and the fixed 512 of MBC2
RamSizes == {0, 512, 2048, 8192, 32768, 131072, 65536}
\* C29: a failure to write the save file during sav() is not fatal: sav()
\* returns and the cartridge (RAM, bank latches) is as before; and a save
\* file that cannot be opened at load gives zero-filled RAM of the declared
\* size.
C29_SaveFailureNotFatal ==
    [][/\ (op'.kind = "sav" /\ op'.io = "fails") => (~fatal' /\ mmu' = mmu)
       /\ \A size \in RamSizes :
             ram_read(disk', "absent.sav", size)
                = [len |-> size, bytes |-> Empty]]_vars

\* ---- the whole bus, one address of every arm of Mmunit::get ----
MaxBusSteps == 2
BusAddrs == {0, 256, 16384, 32767, 32768, 40959, 40960, 49151, 49152, 53248,
             57343, 57344, 61440, 65023, 65024, 65183, 65184, 65279, 65280,
             65281, 65282, 65283, 65284, 65287, 65295, 65296, 65343, 65344,
             65348, 65350, 65356, 65357, 65359, 65361, 65365, 65384, 65387,
             65392, 65407, 65408, 65534, 65535}
BusVals == {0, 10, 255}

InitBus ==
    /\ cpu = CpuPowerUp("GB")
    /\ mmu \in {MmunitPowerUp(c, "GB") : c \in CartMenu}
    /\ fatal = FALSE
    /\ ret = 0
    /\ op = [kind |-> "none", a |-> 0, v |-> 0]
    /\ steps = 0
    /\ cpu_rtc = RtcPowerUp
    /\ disk = Empty

AnyRead == \E a \in BusAddrs : BusRead(a, MaxBusSteps)
AnyWrite == \E a \in BusAddrs, v \in BusVals : BusWrite(a, v, MaxBusSteps)
NextBus == AnyRead \/ AnyWrite
SpecBus == InitBus /\ [][NextBus]_vars

\* C8: a read of any 16-bit address returns a byte and never fails, whatever
\* the cartridge variant.
C8_EveryReadReturns ==
    op.kind = "get" => (ret # Panic /\ ret \in 0..255 /\ ~fatal)

\* ---- work RAM and high RAM ----
MaxWramSteps == 5
WramAddrs == {49152, 53248, 57343, 65408, 65534}
WramVals == {0, 1, 2}

InitWram ==
    /\ cpu = CpuPowerUp("GB")
    /\ mmu = MmunitPowerUp(CartridgePowerUp("RomOnly", 2 * BankSize, 0, 0, RtcNow),
                           "GB")
    /\ fatal = FALSE
    /\ ret = 0
    /\ op = [kind |-> "none", a |-> 0, v |-> 0]
    /\ steps = 0
    /\ cpu_rtc = RtcPowerUp
    /\ disk = Empty

WramRead == \E a \in WramAddrs : BusRead(a, MaxWramSteps)
WramWrite == \E a \in WramAddrs, v \in WramVals : BusWrite(a, v, MaxWramSteps)
SelectWramBank == \E v \in WramVals : BusWrite(65392, v, MaxWramSteps)
NextWram == WramRead \/ WramWrite \/ SelectWramBank
SpecWram == InitWram /\ [][NextWram]_vars

IsWorkRam(a) == InRange(a, 49152, 57343) \/ InRange(a, 65408, 65534)
\* what a read of `a` gives once 0xFF70 was written with b
ReadUnder(m, b, a) == Mmunit_get(Mmunit_set(m, 65392, b).m, a)

\* C7: a byte written to 0xC000-0xDFFF or 0xFF80-0xFFFE reads back unchanged,
\* and a byte of 0xD000-0xDFFF held under bank b is not changed by switching
\* 0xFF70 to another bank, writing there, or switching back.
C7_WorkRamRoundTrip ==
    [][/\ (op'.kind = "set" /\ IsWorkRam(op'.a)) => ~fatal'
       /\ (op.kind = "set" /\ IsWorkRam(op.a) /\ op'.kind = "get"
             /\ op'.a = op.a) => ret' = op.v
       /\ \A b \in 1..7 : \A a \in {53248, 57343} :
             (op'.kind = "set"
                /\ \/ op'.a = 65392
                   \/ InRange(op'.a, 53248, 57343) /\ mmu.wram_bank # b)
             => ReadUnder(mmu', b, a) = ReadUnder(mmu, b, a)]_vars

\* bank 1 and bank 2 hold different bytes at 0xD000 and the read that
\* followed the switch back to bank 1 returned bank 1's byte
C7_Witness ==
    /\ op.kind = "get" /\ op.a = 53248 /\ mmu.wram_bank = 1
    /\ ret # 0
    /\ ReadUnder(mmu, 2, 53248) \notin {0, ret}

\* ---- claims about the processor ----

\* C9: executing an opcode is fatal exactly for the primary opcodes 0xD3,
\* 0xDB, 0xDD, 0xE3, 0xE4, 0xEB, 0xEC, 0xED, 0xF4, 0xFC and 0xFD; every
\* other primary opcode and every 0xCB-prefixed opcode runs its handler and
\* the step returns a cycle count.
C9_FatalExactlyUnassigned ==
    (op.kind = "next" /\ op.path = "execute") =>
        /\ fatal <=> op.v \in {211, 219, 221, 227, 228, 235, 236, 237, 244,
                               252, 253}
        /\ ~fatal => ret \in Nat

\* IF & IE as the bus shows them, and the lowest bit set in a byte
Pending(m) == BitAnd(Mmunit_get(m, 65295), Mmunit_get(m, 65535))
LowestSetBit(x) ==
    CHOOSE n \in 0..7 :
        /\ BitAnd(x, Pow2(n)) # 0
        /\ \A k \in 0..7 : k < n => BitAnd(x, Pow2(k)) = 0
InWorkRam(a) == InRange(a, 49152, 57343) \/ InRange(a, 65408, 65534)

\* What C1 says of one step: bit n of IF cleared and no other, ei cleared,
\* the old PC on the stack at SP-2, PC at 0x0040 + 8n, nothing else touched.
ServicesLowest ==
    LET n == LowestSetBit(Pending(mmu))
        sp == W16(cpu.reg.stack_pointer - 2)
        pc == cpu.reg.program_counter
    IN /\ ~fatal'
       /\ Mmunit_get(mmu', 65295) = Mmunit_get(mmu, 65295) - Pow2(n)
       /\ ~cpu'.ei
       /\ ~cpu'.halted
       /\ cpu'.reg = [cpu.reg EXCEPT !.stack_pointer = sp,
                                     !.program_counter = 64 + 8 * n]
       /\ Mmunit_get(mmu', sp) = pc % 256
       /\ Mmunit_get(mmu', W16(sp + 1)) = pc \div 256
       /\ \A a \in BusAddrs \ {65295, sp, W16(sp + 1)} :
             Mmunit_get(mmu', a) = Mmunit_get(mmu, a)

\* C1 as amended: a step that begins with ei set and IF & IE # 0 services
\* the lowest set bit n only (IF bit n cleared, the other IF bits unchanged,
\* ei cleared, the pre-step PC pushed at SP-2, PC = 0x0040 + 8n, no
\* instruction executed), provided the two pushed bytes land in work RAM or
\* high RAM.
C1_DispatchInRam ==
    [][(op'.kind = "next" /\ cpu.ei /\ Pending(mmu) # 0
          /\ InWorkRam(W16(cpu.reg.stack_pointer - 2))
          /\ InWorkRam(W16(cpu.reg.stack_pointer - 1)))
       => ServicesLowest]_vars

\* C1 as stated: the same of every step that begins with ei set and
\* IF & IE # 0, wherever the stack pointer is.
C1_DispatchAnywhere ==
    [][(op'.kind = "next" /\ cpu.ei /\ Pending(mmu) # 0) => ServicesLowest]_vars

\* two interrupts were pending and enabled, the step took the lower one and
\* left the higher one pending
C1_Witness ==
    /\ op.kind = "next" /\ op.path = "dispatch" /\ ~fatal
    /\ cpu.reg.program_counter = 64 + 8 * 1
    /\ Mmunit_get(mmu, 65295) = 4
    /\ InWorkRam(cpu.reg.stack_pointer)
    /\ Memory_get_word(mmu, cpu.reg.stack_pointer) = op.a

\* C2: a step that begins halted with ei clear and IF & IE # 0 clears
\* halted, leaves IF alone, pushes nothing, takes no vector, and goes on to
\* fetch and execute the instruction after the HALT.
C2_WakeWithoutDispatch ==
    [][(op'.kind = "next" /\ cpu.halted /\ ~cpu.ei /\ Pending(mmu) # 0) =>
          LET woken == [Machine(cpu, mmu) EXCEPT !.halted = FALSE]
              e == ex(woken)
              pc == cpu.reg.program_counter
          IN /\ ~cpu'.halted \/ op'.v = 118
             /\ op'.path = "execute"
             /\ ~fatal' =>
                   /\ cpu'.reg = e.s.reg /\ mmu' = e.s.mem /\ ret' = 4 * e.v
                   /\ ~cpu'.ei
             /\ op'.v = 0 =>
                   /\ ~fatal' /\ ret' = 4 /\ mmu' = mmu
                   /\ cpu' = [reg |-> [cpu.reg EXCEPT !.program_counter = pc + 1],
                              halted |-> FALSE, ei |-> FALSE]
             /\ op'.v = 4 =>
                   /\ ~fatal' /\ mmu' = mmu
                   /\ cpu'.reg.program_counter = pc + 1
                   /\ cpu'.reg.stack_pointer = cpu.reg.stack_pointer
                   /\ cpu'.reg.b_reg = W8(cpu.reg.b_reg + 1)]_vars

\* the processor was halted with interrupts disabled, a key press made
\* IF & IE nonzero, and the step ran the NOP after the HALT
C2_Witness ==
    /\ op.kind = "next" /\ op.pre.halted /\ ~op.pre.ei /\ op.v = 0
    /\ op.path = "execute"
    /\ ~cpu.halted /\ ~fatal
    /\ Pending(mmu) # 0
    /\ cpu.reg.program_counter = op.a + 1

\* C3: the low nibble of F is zero in every reachable state, and after
\* set_af(x) (POP AF) parse_af() is x & 0xFFF0.
C3_FlagLowNibbleZero ==
    /\ BitAnd(cpu.reg.f_reg, 15) = 0
    /\ (op.kind = "next" /\ op.path = "execute" /\ op.v = 241 /\ ~fatal) =>
          parse_af(cpu.reg)
            = BitAnd(Memory_get_word(mmu, op.pre.reg.stack_pointer), 65520)

\* POP AF took a word whose low nibble was not zero
C3_Witness ==
    /\ op.kind = "next" /\ op.path = "execute" /\ op.v = 241 /\ ~fatal
    /\ BitAnd(Memory_get_word(mmu, op.pre.reg.stack_pointer), 15) # 0
    /\ cpu.reg.a_reg = 18 /\ cpu.reg.f_reg = 240

\* C10: ADD A,B leaves Carry = (a + b > 0xFF), HalfCarry = ((a & 0xF) +
\* (b & 0xF) > 0xF), Subtraction clear and Zero exactly when (a + b) mod 256
\* is 0; SUB B straight after it brings A back to a.
C10_AddThenSub ==
    [][(op'.kind = "next" /\ op'.path = "execute" /\ ~fatal') =>
          /\ op'.v = 128 =>
                LET a == cpu.reg.a_reg
                    b == cpu.reg.b_reg
                IN /\ cpu'.reg.a_reg = (a + b) % 256
                   /\ get_flag(cpu'.reg, CarryFlag) <=> a + b > 255
                   /\ get_flag(cpu'.reg, HalfCarryFlag) <=> (a % 16) + (b % 16) > 15
                   /\ ~get_flag(cpu'.reg, SubtractionFlag)
                   /\ get_flag(cpu'.reg, ZeroFlag) <=> (a + b) % 256 = 0
                   /\ cpu'.reg.b_reg = b
          /\ (op'.v = 144 /\ op.kind = "next" /\ op.path = "execute"
                /\ op.v = 128) =>
                cpu'.reg.a_reg = op.pre.reg.a_reg]_vars

\* 0xFF + 0xF1 carried out of both nibbles and SUB B gave 0xFF back
C10_Witness ==
    /\ op.kind = "next" /\ op.path = "execute" /\ op.v = 144 /\ ~fatal
    /\ op.pre.reg.a_reg = 240 /\ op.pre.reg.b_reg = 241
    /\ get_flag(op.pre.reg, CarryFlag) /\ get_flag(op.pre.reg, HalfCarryFlag)
    /\ cpu.reg.a_reg = 255

C19_DispatchCostsFive ==
    (op.kind = "next" /\ op.path = "dispatch" /\ ~fatal) => ret = 5 * 4

\* C20: a step taken while the processor is halted and IF & IE = 0 leaves
\* the registers, the flags, the halted state and all memory as they were,
\* fetches nothing and returns 4; the processor stays halted.
C20_HaltedStall ==
    [][(op'.kind = "next" /\ cpu.halted /\ Pending(mmu) = 0) =>
          /\ ~fatal'
          /\ op'.path = "stall"
          /\ cpu' = cpu /\ cpu'.halted
          /\ mmu' = mmu
          /\ ret' = 4]_vars
C20_Witness ==
    /\ op.kind = "next" /\ op.path = "stall" /\ op.pre.halted
    /\ Pending(mmu) = 0
    /\ cpu.halted /\ cpu = op.pre /\ ret = 4 /\ ~fatal

\* C21: an interrupt flag a peripheral raises while the driver processes a
\* step is not serviced in that step: the processor's part of the step is
\* what Cpu::next makes of the state at the start of the step (IF & IE
\* sampled once, before the peripherals advance), the step dispatches
\* exactly when an enabled flag was pending at its start, and a flag raised
\* in the step is still set in IF after it.
C21_RaisedFlagWaits ==
    [][(op'.kind = "step" /\ ~fatal') =>
          LET r == next(Machine(cpu, mmu)) IN
          /\ cpu' = [reg |-> r.s.reg, halted |-> r.s.halted, ei |-> r.s.ei]
          /\ ret' = r.v
          /\ (op'.path = "dispatch") <=> (Pending(mmu) # 0 /\ cpu.ei)
          /\ BitAnd(mmu'.intf, op'.raised) = op'.raised
          /\ mmu'.intf = BitOr(r.s.mem.intf, op'.raised)]_vars
\* the timer raised its flag in a step that executed an instruction; the
\* flag is pending and enabled, and the program counter is not at a vector
C21_Witness ==
    /\ op.kind = "step" /\ op.path = "execute" /\ ~fatal
    /\ op.raised = Pow2(FlagTimer)
    /\ Pending(mmu) = Pow2(FlagTimer) /\ cpu.ei
    /\ cpu.reg.program_counter = op.a + 2


\* C36: every step of the processor returns a clock-cycle count that is a
\* positive multiple of 4: the execution of any opcode (HALT and STOP
\* included), the halted stall and the dispatch.
C36_PositiveCycles ==
    (op.kind = "next" /\ ~fatal) => (ret >= 4 /\ ret % 4 = 0)

\* C37: a dispatch leaves PC at one of 0x0040, 0x0048, 0x0050, 0x0058 and
\* 0x0060, whatever the program wrote to IF and IE.
C37_FiveVectors ==
    (op.kind = "next" /\ op.path = "dispatch" /\ ~fatal) =>
        cpu.reg.program_counter \in {64, 72, 80, 88, 96}

\* ---- calls, dispatches and their returns ----

\* The ROM holds a main program at the entry point and the same handler at
\* every address a dispatch can reach (0x0040 + 8n). The main program is
\* LD SP,sp; LD A,0xFF; LDH (0xFF),A; LD A,if; LDH (0x0F),A; NOP; NOP  -  or
\* LD SP,sp; CALL 0x0108; NOP; NOP; four bytes of body; RET.
MaxNestSteps == 10
HandlerAt == {64 + 8 * n : n \in 0..7}
WithHandler(c, prog, handler) ==
    [c EXCEPT !.rom =
        [i \in (256..(255 + Len(prog)))
                 \cup {v + k : v \in HandlerAt, k \in 0..(Len(handler) - 1)} |->
            IF i >= 256 THEN prog[i - 255] ELSE handler[(i % 8) + 1]]]
NestStacks == {65534, 53248, 16384}
ProgNest ==
    {<<49, sp % 256, sp \div 256, 62, 255, 224, 255, 62, if, 224, 15, 0, 0>> :
        sp \in {65534, 16384}, if \in {6, 224}}
\* NOP; NOP; NOP  /  EI; NOP; NOP  /  NOP; RETI  /  PUSH BC; POP BC; RETI  /
\* RET
Handlers == {<<0, 0, 0>>, <<251, 0, 0>>, <<0, 217>>, <<197, 193, 217>>, <<201>>}
\* the body of the called routine: NOP; NOP  /  PUSH BC; POP BC  /
\* PUSH BC; NOP  /  LD HL,SP+0; LD (HL),A
ProgCall ==
    {<<49, sp % 256, sp \div 256, 205, 8, 1, 0, 0, body[1], body[2], body[3],
       body[4], 201>> :
        sp \in NestStacks,
        body \in {<<0, 0, 0, 0>>, <<197, 193, 0, 0>>, <<197, 0, 0, 0>>,
                  <<248, 0, 119, 0>>}}

InitNest ==
    /\ cpu = CpuPowerUp("GB")
    /\ \E rom \in (ProgNest \X Handlers) \cup (ProgCall \X {<<0, 0, 0>>}) :
          mmu = MmunitPowerUp(
                    WithHandler(CartridgePowerUp("RomOnly", 2 * BankSize, 0, 0,
                                                 RtcNow), rom[1], rom[2]),
                    "GB")
    /\ fatal = FALSE
    /\ ret = 0
    /\ op = [kind |-> "none", a |-> 0, v |-> 0, link |-> <<>>]
    /\ steps = 0
    /\ cpu_rtc = RtcPowerUp
    /\ disk = Empty

\* The calls and dispatches that have not returned yet, innermost last: for
\* each, the address it is to return to, the stack pointer before it, and the
\* word the stack held at the new stack pointer once it had pushed.
Frame(how, to) ==
    [how |-> how, to |-> to, sp |-> cpu.reg.stack_pointer,
     word |-> Memory_get_word(mmu', W16(cpu.reg.stack_pointer - 2))]
LinkAfterStep(path) ==
    LET pc == cpu.reg.program_counter
        opcode == Mmunit_get(mmu, pc)
    IN IF path = "dispatch" THEN Append(op.link, Frame("dispatch", pc))
       ELSE IF path = "execute" /\ opcode = 205
            THEN Append(op.link, Frame("call", W16(pc + 3)))
       ELSE IF path = "execute" /\ opcode \in {201, 217} /\ op.link # <<>>
            THEN SubSeq(op.link, 1, Len(op.link) - 1)
       ELSE op.link
NestStep == CpuStepWith(MaxNestSteps, LinkAfterStep)
NestKey == KeyPressWith(MaxNestSteps, op.link)
NextNest == NestStep \/ NestKey
SpecNest == InitNest /\ [][NextNest]_vars

\* the instruction a step executes, when it executes one
Executes(code) ==
    /\ op'.kind = "next" /\ op'.path = "execute" /\ op'.v = code

\* C35: a step that begins with the global interrupt-enable flag false
\* dispatches nothing (it is the halted stall or the execution of the
\* instruction at PC: servicing clears no IF bit, pushes nothing, takes no
\* vector), however many IF bits are pending; and the flag, once false,
\* becomes true again only by the execution of EI (0xFB) or RETI (0xD9).
C35_NoDispatchWhileDisabled ==
    [][(op'.kind = "next" /\ ~cpu.ei) =>
          LET s == Machine(cpu, mmu)
              woken == [s EXCEPT !.halted = s.halted /\ Pending(mmu) = 0]
              e == ex(woken)
          IN /\ op'.path # "dispatch"
             /\ hi(s).s = woken
             /\ (op'.path = "execute" /\ ~fatal') =>
                   /\ cpu'.reg = e.s.reg /\ mmu' = e.s.mem
                   /\ cpu'.ei = e.s.ei
             /\ op'.path = "stall" => UNCHANGED <<cpu, mmu>>
             /\ cpu'.ei => (Executes(251) \/ Executes(217))]_vars

\* a dispatch has cleared the flag, two more interrupts are pending and
\* enabled (one of them raised by a key press since), and the handler's next
\* instruction ran with IF as it was
C35_Witness ==
    /\ op.kind = "next" /\ op.path = "execute" /\ ~fatal
    /\ ~op.pre.ei /\ ~cpu.ei
    /\ Len(op.link) = 1 /\ op.link[1].how = "dispatch"
    /\ Pending(mmu) = 20
    /\ mmu.joypad.matrix # 255
    /\ InRange(op.a, 64, 127)


\* A step that executes RET (0xC9) against an open call, or RETI (0xD9)
\* against an open dispatch, and finds the stack as the call or the dispatch
\* left it: the stack pointer two below the one it began with, and at that
\* address the word found there right after the push.
ClosesFrame ==
    /\ op'.kind = "next" /\ op'.path = "execute" /\ ~fatal'
    /\ op'.v \in {201, 217}
    /\ op.link # <<>>
    /\ LET f == op.link[Len(op.link)]
       IN /\ f.how = (IF op'.v = 201 THEN "call" ELSE "dispatch")
          /\ cpu.reg.stack_pointer = W16(f.sp - 2)
          /\ Memory_get_word(mmu, cpu.reg.stack_pointer) = f.word
\* what the claim says of such a step
Restores ==
    LET f == op.link[Len(op.link)]
    IN /\ cpu'.reg.program_counter = f.to
       /\ cpu'.reg.stack_pointer = f.sp
       /\ op'.v = 217 => cpu'.ei
StackInRam ==
    LET f == op.link[Len(op.link)]
    IN InWorkRam(W16(f.sp - 2)) /\ InWorkRam(W16(f.sp - 1))

\* C38 as amended: a RET that closes a CALL a16, with the stack balanced and
\* the pushed word not overwritten in between, leaves PC at the address after
\* the three-byte CALL and SP as it was before the CALL; a RETI that closes a
\* dispatch leaves PC and SP as they were before the dispatch and the global
\* interrupt-enable flag set; provided the two pushed bytes lie in work RAM
\* or high RAM.
C38_RoundTripInRam ==
    [][(ClosesFrame /\ StackInRam) => Restores]_vars

\* C38 as stated: the same wherever the stack pointer is.
C38_RoundTripAnywhere ==
    [][ClosesFrame => Restores]_vars

\* the routine called from 0x0103 with SP = 0xD000 pushed and popped BC and
\* returned to 0x0106 with SP = 0xD000 again
C38_Witness ==
    /\ op.kind = "next" /\ op.path = "execute" /\ op.v = 201 /\ ~fatal
    /\ op.a = 268 /\ op.pre.reg.stack_pointer = 53246
    /\ Mmunit_get(mmu, 264) = 197
    /\ cpu.reg.program_counter = 262 /\ cpu.reg.stack_pointer = 53248
    /\ op.link = <<>>

====
